---- MODULE Spec2Model ----
(***************************************************************************)
(* Model of the experiment decision engine of src/src/analysis/stats.py   *)
(* (VariantStats, analyze_experiment, _make_decision), of the event store  *)
(* of src/src/warehouse/db.py, of the collector of src/src/collector and   *)
(* of the export and the report of src/src/analysis.                       *)
(*                                                                         *)
(* Spec runs the decision engine, SpecStore the store and the endpoints    *)
(* one call at a time, SpecValidate single events through validation,      *)
(* SpecConcurrent the endpoints with interleaved requests, SpecExport the  *)
(* export and the report on a filled warehouse.                            *)
(*                                                                         *)
(* Python floats are modelled as fixed-point numbers with eight decimals:  *)
(* the integer a stands for the real number a / Scale.  Every arithmetic   *)
(* step of the source is one fixed-point operation here, rounded toward    *)
(* zero, and round(x, n) keeps n of the eight decimals (half to even), so  *)
(* the reported, rounded fields differ from the statistics the decision is *)
(* taken on, as in the source.  scipy's norm.cdf and norm.ppf are a table  *)
(* of the standard normal distribution at steps of 0.01, interpolated      *)
(* linearly.  Exceptions (ZeroDivisionError, ValueError of math.sqrt) are  *)
(* an outcome of the call, not a value.                                    *)
(***************************************************************************)
EXTENDS Integers, Sequences, FiniteSets, TLC

(***************************************************************************)
(* Bounds and inputs                                                       *)
(***************************************************************************)
\* Largest users count of a valid VariantStats the model constructs.
MaxUsers == 6

\* Fixed-point scale: eight decimals.  Base is its square root.
Scale == 10^8
Base == 10^4

(***************************************************************************)
(* Fixed-point arithmetic standing for Python float arithmetic             *)
(***************************************************************************)
Abs(x) == IF x < 0 THEN -x ELSE x

Sgn(x) == IF x < 0 THEN -1 ELSE IF x > 0 THEN 1 ELSE 0

\* floor(a * b / Scale) for a, b >= 0, computed in halves so that no
\* intermediate product leaves the 32-bit range.
FMulMag(a, b) ==
    LET ah == a \div Base
        al == a % Base
        bh == b \div Base
        bl == b % Base
        mid == ah * bl + al * bh + ((al * bl) \div Base)
    IN  ah * bh + (mid \div Base)

\* a * b for floats.
FMul(a, b) == Sgn(a) * Sgn(b) * FMulMag(Abs(a), Abs(b))

\* The k leading decimals of r / b, for 0 <= r < b (long division).
RECURSIVE FracDigits(_, _, _)
FracDigits(r, b, k) ==
    IF k = 0 THEN 0
    ELSE LET t == r * 10
         IN  (t \div b) * 10^(k - 1) + FracDigits(t % b, b, k - 1)

\* floor(a * Scale / b) for a >= 0, b > 0.
FDivMag(a, b) == (a \div b) * Scale + FracDigits(a % b, b, 8)

\* a / b for two floats, or for two ints (true division), b # 0.
FDiv(a, b) == Sgn(a) * Sgn(b) * FDivMag(Abs(a), Abs(b))

\* a / n for a float a and an int n # 0.
FDivInt(a, n) == Sgn(a) * Sgn(n) * (Abs(a) \div Abs(n))

\* r * r <= a * Scale, exactly, for r, a >= 0.
SquareLeq(r, a) ==
    LET rh == r \div Base
        rl == r % Base
        low == rl * rl
        mid == 2 * rh * rl + (low \div Base)
        q == rh * rh + (mid \div Base)
    IN  q < a \/ (q = a /\ mid % Base = 0 /\ low % Base = 0)

\* Bisection for the square root: lo * lo <= a * Scale < hi * hi.
RECURSIVE SqrtSearch(_, _, _)
SqrtSearch(a, lo, hi) ==
    IF hi - lo <= 1 THEN lo
    ELSE LET m == (lo + hi) \div 2
         IN  IF SquareLeq(m, a) THEN SqrtSearch(a, m, hi)
             ELSE SqrtSearch(a, lo, m)

\* math.sqrt(a) for a float 0 <= a <= 4; math.sqrt raises ValueError below 0,
\* which the callers test before they use this.
FSqrt(a) == SqrtSearch(a, 0, 2 * Scale + 1)

\* Python's round(a, ndigits), ndigits <= 8: half to even.
RoundTo(a, ndigits) ==
    LET unit == 10^(8 - ndigits)
        m == Abs(a)
        q == m \div unit
        r == m % unit
        up == IF 2 * r > unit THEN 1
              ELSE IF 2 * r < unit THEN 0
              ELSE q % 2
    IN  Sgn(a) * (q + up) * unit

(***************************************************************************)
(* scipy.stats.norm                                                        *)
(***************************************************************************)
\* Phi(i / 100) * Scale for i = 0 .. 600, at index i + 1.
NormTable == <<
    50000000, 50398936, 50797831, 51196647, 51595344, 51993881, 52392218, 52790317,
    53188137, 53585639, 53982784, 54379531, 54775843, 55171679, 55567000, 55961769,
    56355946, 56749493, 57142372, 57534543, 57925971, 58316616, 58706442, 59095412,
    59483487, 59870633, 60256811, 60641987, 61026125, 61409188, 61791142, 62171952,
    62551583, 62930002, 63307174, 63683065, 64057643, 64430875, 64802729, 65173173,
    65542174, 65909703, 66275727, 66640218, 67003145, 67364478, 67724189, 68082249,
    68438630, 68793305, 69146246, 69497427, 69846821, 70194403, 70540148, 70884031,
    71226028, 71566115, 71904269, 72240468, 72574688, 72906910, 73237111, 73565271,
    73891370, 74215389, 74537309, 74857110, 75174777, 75490291, 75803635, 76114793,
    76423750, 76730491, 77035000, 77337265, 77637271, 77935005, 78230456, 78523612,
    78814460, 79102991, 79389195, 79673061, 79954581, 80233746, 80510548, 80784980,
    81057035, 81326706, 81593987, 81858875, 82121362, 82381446, 82639122, 82894387,
    83147239, 83397675, 83645694, 83891294, 84134475, 84375235, 84613577, 84849500,
    85083005, 85314094, 85542770, 85769035, 85992891, 86214343, 86433394, 86650049,
    86864312, 87076189, 87285685, 87492806, 87697560, 87899952, 88099989, 88297680,
    88493033, 88686055, 88876756, 89065145, 89251230, 89435023, 89616532, 89795768,
    89972743, 90147467, 90319952, 90490208, 90658249, 90824086, 90987733, 91149201,
    91308504, 91465655, 91620668, 91773556, 91924334, 92073016, 92219616, 92364149,
    92506630, 92647074, 92785496, 92921912, 93056338, 93188788, 93319280, 93447829,
    93574451, 93699164, 93821982, 93942924, 94062006, 94179244, 94294657, 94408260,
    94520071, 94630107, 94738386, 94844925, 94949742, 95052853, 95154277, 95254032,
    95352134, 95448602, 95543454, 95636706, 95728378, 95818486, 95907049, 95994084,
    96079610, 96163643, 96246202, 96327304, 96406968, 96485211, 96562050, 96637503,
    96711588, 96784323, 96855724, 96925809, 96994596, 97062102, 97128344, 97193339,
    97257105, 97319658, 97381016, 97441194, 97500210, 97558081, 97614824, 97670453,
    97724987, 97778441, 97830831, 97882173, 97932484, 97981778, 98030073, 98077383,
    98123723, 98169110, 98213558, 98257082, 98299698, 98341419, 98382262, 98422239,
    98461367, 98499658, 98537127, 98573788, 98609655, 98644742, 98679062, 98712628,
    98745454, 98777553, 98808937, 98839621, 98869616, 98898934, 98927589, 98955592,
    98982956, 99009692, 99035813, 99061329, 99086253, 99110596, 99134368, 99157581,
    99180246, 99202374, 99223975, 99245059, 99265637, 99285719, 99305315, 99324435,
    99343088, 99361285, 99379033, 99396344, 99413226, 99429687, 99445738, 99461385,
    99476639, 99491507, 99505998, 99520120, 99533881, 99547289, 99560351, 99573076,
    99585470, 99597541, 99609297, 99620744, 99631889, 99642740, 99653303, 99663584,
    99673590, 99683328, 99692804, 99702024, 99710993, 99719719, 99728206, 99736460,
    99744487, 99752293, 99759882, 99767260, 99774432, 99781404, 99788179, 99794764,
    99801162, 99807379, 99813419, 99819286, 99824984, 99830519, 99835894, 99841113,
    99846180, 99851100, 99855876, 99860511, 99865010, 99869376, 99873613, 99877723,
    99881711, 99885579, 99889332, 99892971, 99896500, 99899922, 99903240, 99906456,
    99909574, 99912597, 99915526, 99918365, 99921115, 99923781, 99926362, 99928864,
    99931286, 99933633, 99935905, 99938105, 99940235, 99942297, 99944294, 99946226,
    99948096, 99949906, 99951658, 99953352, 99954991, 99956577, 99958111, 99959594,
    99961029, 99962416, 99963757, 99965054, 99966307, 99967519, 99968689, 99969821,
    99970914, 99971971, 99972991, 99973977, 99974929, 99975849, 99976737, 99977595,
    99978423, 99979222, 99979994, 99980738, 99981457, 99982151, 99982820, 99983466,
    99984089, 99984690, 99985270, 99985829, 99986368, 99986888, 99987389, 99987872,
    99988338, 99988787, 99989220, 99989637, 99990039, 99990426, 99990799, 99991158,
    99991504, 99991838, 99992159, 99992468, 99992765, 99993052, 99993327, 99993593,
    99993848, 99994094, 99994331, 99994558, 99994777, 99994988, 99995190, 99995385,
    99995573, 99995753, 99995926, 99996092, 99996253, 99996406, 99996554, 99996696,
    99996833, 99996964, 99997090, 99997211, 99997327, 99997439, 99997546, 99997649,
    99997748, 99997843, 99997934, 99998022, 99998106, 99998186, 99998263, 99998338,
    99998409, 99998477, 99998542, 99998605, 99998665, 99998723, 99998778, 99998832,
    99998882, 99998931, 99998978, 99999023, 99999066, 99999107, 99999146, 99999184,
    99999220, 99999254, 99999288, 99999319, 99999350, 99999379, 99999407, 99999433,
    99999459, 99999483, 99999506, 99999529, 99999550, 99999571, 99999590, 99999609,
    99999627, 99999644, 99999660, 99999676, 99999691, 99999705, 99999719, 99999732,
    99999744, 99999756, 99999768, 99999778, 99999789, 99999799, 99999808, 99999817,
    99999826, 99999834, 99999842, 99999849, 99999857, 99999863, 99999870, 99999876,
    99999882, 99999888, 99999893, 99999898, 99999903, 99999908, 99999912, 99999917,
    99999921, 99999925, 99999928, 99999932, 99999935, 99999938, 99999941, 99999944,
    99999947, 99999950, 99999952, 99999954, 99999957, 99999959, 99999961, 99999963,
    99999965, 99999967, 99999968, 99999970, 99999971, 99999973, 99999974, 99999975,
    99999977, 99999978, 99999979, 99999980, 99999981, 99999982, 99999983, 99999984,
    99999985, 99999986, 99999986, 99999987, 99999988, 99999988, 99999989, 99999989,
    99999990, 99999991, 99999991, 99999992, 99999992, 99999992, 99999993, 99999993,
    99999994, 99999994, 99999994, 99999995, 99999995, 99999995, 99999995, 99999996,
    99999996, 99999996, 99999996, 99999996, 99999997, 99999997, 99999997, 99999997,
    99999997, 99999997, 99999998, 99999998, 99999998, 99999998, 99999998, 99999998,
    99999998, 99999998, 99999998, 99999999, 99999999, 99999999, 99999999, 99999999,
    99999999, 99999999, 99999999, 99999999, 99999999, 99999999, 99999999, 99999999,
    99999999, 99999999, 99999999, 99999999, 99999999, 99999999, 100000000, 100000000,
    100000000, 100000000, 100000000, 100000000, 100000000, 100000000, 100000000, 100000000,
    100000000, 100000000, 100000000, 100000000, 100000000, 100000000, 100000000, 100000000,
    100000000, 100000000, 100000000, 100000000, 100000000, 100000000, 100000000, 100000000,
    100000000>>

\* Step of the table: 0.01.
TableStep == Scale \div 100

\* stats.norm.cdf(z) for z >= 0.
NormCdfPos(z) ==
    LET i == z \div TableStep
        frac == (z % TableStep) * 100
    IN  IF i >= Len(NormTable) - 1 THEN NormTable[Len(NormTable)]
        ELSE NormTable[i + 1] + FMul(NormTable[i + 2] - NormTable[i + 1], frac)

\* stats.norm.cdf(z).
norm_cdf(z) == IF z >= 0 THEN NormCdfPos(z) ELSE Scale - NormCdfPos(-z)

\* stats.norm.ppf(q) for 0.5 <= q < 1: the inverse of NormCdfPos.
NormPpfUpper(q) ==
    IF q >= NormTable[Len(NormTable)] THEN (Len(NormTable) - 1) * TableStep
    ELSE LET i == CHOOSE k \in 1..(Len(NormTable) - 1) :
                      NormTable[k] <= q /\ q < NormTable[k + 1]
             frac == FDiv(q - NormTable[i], NormTable[i + 1] - NormTable[i])
         IN  (i - 1) * TableStep + (frac \div 100)

\* stats.norm.ppf(q) for 0 < q < 1.
norm_ppf(q) == IF q >= Scale \div 2 THEN NormPpfUpper(q) ELSE -NormPpfUpper(Scale - q)

(***************************************************************************)
(* Inputs                                                                  *)
(***************************************************************************)
\* (users, conversions) pairs with 0 <= conversions <= users.
ValidCounts == {uc \in (0..MaxUsers) \X (0..MaxUsers) : uc[2] <= uc[1]}

\* Pairs the spec calls invalid: conversions > users, or a negative count.
InvalidCounts == {<<1, 2>>, <<2, 3>>, <<3, -1>>, <<-1, 0>>}

Counts == ValidCounts \cup InvalidCounts

\* confidence_level arguments, floats in (0, 1): 0.90, 0.95 (the default) and
\* 0.99, and three levels that put a statistic of some input within one
\* rounding step of a threshold:
\*   0.8032922   1 - confidence_level lies between a p-value and its rounding;
\*   0.8426956   z_crit * se_ci lies just below an uplift of 0.5;
\*   0.000001    the interval is narrower than the six reported decimals.
ConfidenceLevels ==
    {90 * (Scale \div 100), 95 * (Scale \div 100), 99 * (Scale \div 100),
     80329220, 84269560, 100}

\* min_sample_size arguments.
MinSampleSizes == {0, 2, 4}

(***************************************************************************)
(* State                                                                   *)
(***************************************************************************)
VARIABLES
    control,     \* the control VariantStats, once constructed
    treatment,   \* the treatment VariantStats, once constructed
    call,        \* the arguments of the analyze_experiment call, once made
    locals,      \* the call's local variables (unrounded statistics)
    result       \* the call's outcome: an ExperimentResult or an exception

statsVars == <<control, treatment, call, locals, result>>

NoVariant == [name |-> "unset"]
NoCall == [made |-> FALSE]
NoLocals == [reached |-> "none"]
NoResult == [status |-> "none"]

(***************************************************************************)
(* VariantStats                                                            *)
(***************************************************************************)
\* The dataclass constructor: stores its arguments, validates nothing.
VariantStats(name, users, conversions) ==
    [name |-> name, users |-> users, conversions |-> conversions]

\* VariantStats.conversion_rate
conversion_rate(v) ==
    IF v.users = 0 THEN 0 ELSE FDiv(v.conversions, v.users)

(***************************************************************************)
(* _make_decision                                                          *)
(***************************************************************************)
\* Mutant: the SHIP test is made before the significance test.
make_decision_ship_first(is_significant, absolute_uplift, relative_uplift, p_value, ci_lower, ci_upper, confidence_level) ==
    IF absolute_uplift > 0 /\ ci_lower > 0
    THEN [decision |-> "SHIP", reason |-> "Statistically significant positive effect"]
    ELSE IF ~is_significant
    THEN [decision |-> "DO NOT SHIP", reason |-> "Not statistically significant"]
    ELSE IF absolute_uplift < 0 /\ ci_upper < 0
    THEN [decision |-> "DO NOT SHIP", reason |-> "Statistically significant NEGATIVE effect"]
    ELSE [decision |-> "DO NOT SHIP", reason |-> "Effect direction uncertain"]

\* Mutant: the SHIP branch does not look at the interval.
make_decision_no_ci_check(is_significant, absolute_uplift, relative_uplift, p_value, ci_lower, ci_upper, confidence_level) ==
    IF ~is_significant
    THEN [decision |-> "DO NOT SHIP", reason |-> "Not statistically significant"]
    ELSE IF absolute_uplift > 0
    THEN [decision |-> "SHIP", reason |-> "Statistically significant positive effect"]
    ELSE IF absolute_uplift < 0 /\ ci_upper < 0
    THEN [decision |-> "DO NOT SHIP", reason |-> "Statistically significant NEGATIVE effect"]
    ELSE [decision |-> "DO NOT SHIP", reason |-> "Effect direction uncertain"]

\* Mutant: the negative branch tests the wrong end of the interval.
make_decision_wrong_bound(is_significant, absolute_uplift, relative_uplift, p_value, ci_lower, ci_upper, confidence_level) ==
    IF ~is_significant
    THEN [decision |-> "DO NOT SHIP", reason |-> "Not statistically significant"]
    ELSE IF absolute_uplift > 0 /\ ci_lower > 0
    THEN [decision |-> "SHIP", reason |-> "Statistically significant positive effect"]
    ELSE IF absolute_uplift < 0 /\ ci_upper > 0
    THEN [decision |-> "DO NOT SHIP", reason |-> "Statistically significant NEGATIVE effect"]
    ELSE [decision |-> "DO NOT SHIP", reason |-> "Effect direction uncertain"]

\* Mutant: the SHIP branch looks at the upper bound of the interval.
make_decision_ship_upper(is_significant, absolute_uplift, relative_uplift, p_value, ci_lower, ci_upper, confidence_level) ==
    IF ~is_significant
    THEN [decision |-> "DO NOT SHIP", reason |-> "Not statistically significant"]
    ELSE IF absolute_uplift > 0 /\ ci_upper > 0
    THEN [decision |-> "SHIP", reason |-> "Statistically significant positive effect"]
    ELSE IF absolute_uplift < 0 /\ ci_upper < 0
    THEN [decision |-> "DO NOT SHIP", reason |-> "Statistically significant NEGATIVE effect"]
    ELSE [decision |-> "DO NOT SHIP", reason |-> "Effect direction uncertain"]

\* Mutant: a test that is not significant is reported as INCONCLUSIVE.
make_decision_inconclusive(is_significant, absolute_uplift, relative_uplift, p_value, ci_lower, ci_upper, confidence_level) ==
    IF ~is_significant
    THEN [decision |-> "INCONCLUSIVE", reason |-> "Not statistically significant"]
    ELSE IF absolute_uplift > 0 /\ ci_lower > 0
    THEN [decision |-> "SHIP", reason |-> "Statistically significant positive effect"]
    ELSE IF absolute_uplift < 0 /\ ci_upper < 0
    THEN [decision |-> "DO NOT SHIP", reason |-> "Statistically significant NEGATIVE effect"]
    ELSE [decision |-> "DO NOT SHIP", reason |-> "Effect direction uncertain"]

\* The reason strings are modelled by the branch that writes them.
make_decision(is_significant, absolute_uplift, relative_uplift, p_value, ci_lower, ci_upper, confidence_level) ==
    IF ~is_significant
    THEN [decision |-> "DO NOT SHIP", reason |-> "Not statistically significant"]
    ELSE IF absolute_uplift > 0 /\ ci_lower > 0
    THEN [decision |-> "SHIP", reason |-> "Statistically significant positive effect"]
    ELSE IF absolute_uplift < 0 /\ ci_upper < 0
    THEN [decision |-> "DO NOT SHIP", reason |-> "Statistically significant NEGATIVE effect"]
    ELSE [decision |-> "DO NOT SHIP", reason |-> "Effect direction uncertain"]

(***************************************************************************)
(* analyze_experiment, line by line                                        *)
(***************************************************************************)
\* absolute_uplift = p_t - p_c
absolute_uplift_of(p_c, p_t) == p_t - p_c

\* Mutant: with a control rate of 0 the relative uplift falls back to the
\* absolute uplift instead of 0.0.
relative_uplift_of_fallback(absolute_uplift, p_c) ==
    IF p_c > 0 THEN FDiv(absolute_uplift, p_c) ELSE absolute_uplift

\* relative_uplift = absolute_uplift / p_c if p_c > 0 else 0.0
relative_uplift_of(absolute_uplift, p_c) ==
    IF p_c > 0 THEN FDiv(absolute_uplift, p_c) ELSE 0

\* Mutant: the guard wants both variants below the minimum.
below_min_sample_both(n_c, n_t, min_sample_size) ==
    n_c < min_sample_size /\ n_t < min_sample_size

\* n_c < min_sample_size or n_t < min_sample_size
below_min_sample(n_c, n_t, min_sample_size) ==
    n_c < min_sample_size \/ n_t < min_sample_size

\* The ExperimentResult of the minimum-sample guard.
insufficient_result(c, t, absolute_uplift, relative_uplift, confidence_level) ==
    [status |-> "returned",
     control |-> c,
     treatment |-> t,
     absolute_uplift |-> absolute_uplift,
     relative_uplift |-> relative_uplift,
     p_value |-> Scale,
     confidence_level |-> confidence_level,
     ci_lower |-> 0,
     ci_upper |-> 0,
     is_significant |-> FALSE,
     decision |-> "INCONCLUSIVE",
     reason |-> "Insufficient sample size"]

\* An exception leaving analyze_experiment from the given source line.
Raised(exception, line) ==
    [status |-> "raised", exception |-> exception, line |-> line]

\* p_pool * (1 - p_pool) * (1 / n_c + 1 / n_t), the argument of math.sqrt
test_variance(p_pool, n_c, n_t) ==
    FMul(FMul(p_pool, Scale - p_pool), FDiv(1, n_c) + FDiv(1, n_t))

\* p_value = 2 * (1 - stats.norm.cdf(abs(z_stat)))
p_value_of(z_stat) == 2 * (Scale - norm_cdf(Abs(z_stat)))

\* (p_c * (1 - p_c) / n_c) + (p_t * (1 - p_t) / n_t), the argument of math.sqrt
ci_variance(p_c, p_t, n_c, n_t) ==
    FDivInt(FMul(p_c, Scale - p_c), n_c) + FDivInt(FMul(p_t, Scale - p_t), n_t)

\* Mutant: the critical value of the default 95% level, whatever the level asked.
z_crit_of_default_level(confidence_level) ==
    norm_ppf(Scale - FDivInt(Scale - 95 * (Scale \div 100), 2))

\* z_crit = stats.norm.ppf(1 - (1 - confidence_level) / 2)
z_crit_of(confidence_level) ==
    norm_ppf(Scale - FDivInt(Scale - confidence_level, 2))

\* ci_lower = absolute_uplift - z_crit * se_ci
ci_lower_of(absolute_uplift, z_crit, se_ci) == absolute_uplift - FMul(z_crit, se_ci)

\* ci_upper = absolute_uplift + z_crit * se_ci
ci_upper_of(absolute_uplift, z_crit, se_ci) == absolute_uplift + FMul(z_crit, se_ci)

\* Mutant: significance is taken from the rounded p-value.
is_significant_of_rounded(p_value, confidence_level) ==
    RoundTo(p_value, 6) < Scale - confidence_level

\* is_significant = p_value < (1 - confidence_level)
is_significant_of(p_value, confidence_level) == p_value < Scale - confidence_level

\* Mutant: absolute_uplift is rounded to four decimals, like relative_uplift.
experiment_result_uplift_4(c, t, absolute_uplift, relative_uplift, p_value, confidence_level, ci_lower, ci_upper, is_significant, verdict) ==
    [status |-> "returned",
     control |-> c,
     treatment |-> t,
     absolute_uplift |-> RoundTo(absolute_uplift, 4),
     relative_uplift |-> RoundTo(relative_uplift, 4),
     p_value |-> RoundTo(p_value, 6),
     confidence_level |-> confidence_level,
     ci_lower |-> RoundTo(ci_lower, 6),
     ci_upper |-> RoundTo(ci_upper, 6),
     is_significant |-> is_significant,
     decision |-> verdict.decision,
     reason |-> verdict.reason]

\* The ExperimentResult of a completed test: the statistics, rounded.
experiment_result(c, t, absolute_uplift, relative_uplift, p_value, confidence_level, ci_lower, ci_upper, is_significant, verdict) ==
    [status |-> "returned",
     control |-> c,
     treatment |-> t,
     absolute_uplift |-> RoundTo(absolute_uplift, 6),
     relative_uplift |-> RoundTo(relative_uplift, 4),
     p_value |-> RoundTo(p_value, 6),
     confidence_level |-> confidence_level,
     ci_lower |-> RoundTo(ci_lower, 6),
     ci_upper |-> RoundTo(ci_upper, 6),
     is_significant |-> is_significant,
     decision |-> verdict.decision,
     reason |-> verdict.reason]

\* The local variables of a call that left before the test was computed.
EarlyLocals(reached, absolute_uplift, relative_uplift) ==
    [reached |-> reached,
     absolute_uplift |-> absolute_uplift,
     relative_uplift |-> relative_uplift]

\* One call of analyze_experiment: its outcome (result) and the values its
\* local variables held when it left (locals).
analyze_experiment(c, t, confidence_level, min_sample_size) ==
    LET p_c == conversion_rate(c)
        p_t == conversion_rate(t)
        n_c == c.users
        n_t == t.users
        absolute_uplift == absolute_uplift_of(p_c, p_t)
        relative_uplift == relative_uplift_of(absolute_uplift, p_c)
    IN
    IF below_min_sample(n_c, n_t, min_sample_size)
    THEN [result |-> insufficient_result(c, t, absolute_uplift, relative_uplift,
                                         confidence_level),
          locals |-> EarlyLocals("guard", absolute_uplift, relative_uplift)]
    ELSE IF n_c + n_t = 0
    THEN [result |-> Raised("ZeroDivisionError", 91),
          locals |-> EarlyLocals("raise", absolute_uplift, relative_uplift)]
    ELSE IF n_c = 0 \/ n_t = 0
    THEN [result |-> Raised("ZeroDivisionError", 94),
          locals |-> EarlyLocals("raise", absolute_uplift, relative_uplift)]
    ELSE
    LET p_pool == FDiv(c.conversions + t.conversions, n_c + n_t)
        var_test == test_variance(p_pool, n_c, n_t)
    IN
    IF var_test < 0
    THEN [result |-> Raised("ValueError", 94),
          locals |-> EarlyLocals("raise", absolute_uplift, relative_uplift)]
    ELSE
    LET se_test == FSqrt(var_test)
        z_stat == IF se_test = 0 THEN 0 ELSE FDiv(absolute_uplift, se_test)
        p_value == IF se_test = 0 THEN Scale ELSE p_value_of(z_stat)
        var_ci == ci_variance(p_c, p_t, n_c, n_t)
    IN
    IF var_ci < 0
    THEN [result |-> Raised("ValueError", 105),
          locals |-> EarlyLocals("raise", absolute_uplift, relative_uplift)]
    ELSE
    LET se_ci == FSqrt(var_ci)
        z_crit == z_crit_of(confidence_level)
        ci_lower == ci_lower_of(absolute_uplift, z_crit, se_ci)
        ci_upper == ci_upper_of(absolute_uplift, z_crit, se_ci)
        is_significant == is_significant_of(p_value, confidence_level)
        verdict == make_decision(is_significant, absolute_uplift, relative_uplift,
                                 p_value, ci_lower, ci_upper, confidence_level)
    IN  [result |-> experiment_result(c, t, absolute_uplift, relative_uplift, p_value,
                                      confidence_level, ci_lower, ci_upper,
                                      is_significant, verdict),
         locals |-> [reached |-> "test",
                     absolute_uplift |-> absolute_uplift,
                     relative_uplift |-> relative_uplift,
                     p_pool |-> p_pool,
                     se_test |-> se_test,
                     z_stat |-> z_stat,
                     p_value |-> p_value,
                     se_ci |-> se_ci,
                     z_crit |-> z_crit,
                     ci_lower |-> ci_lower,
                     ci_upper |-> ci_upper,
                     is_significant |-> is_significant]]

(***************************************************************************)
(* The event store of src/src/warehouse/db.py                              *)
(*                                                                         *)
(* raw_events is the DuckDB table, a sequence of rows in insertion order.  *)
(* An event handed to insert_events is a dict, modelled as a record whose  *)
(* DOMAIN is the dict's keys.  The column ingested_at (DEFAULT now()) is   *)
(* read by no query of the repository and is left out.                     *)
(***************************************************************************)
\* Longest batch of events of a call or request (oversized requests apart).
MaxBatch == 2

\* Python None, SQL NULL.
NULL == "NULL"

\* NULL in the timestamp column, whose other values are instants (integers).
NullTimestamp == 0 - 1

EventIds == {"e1", "e2"}

\* A properties dict is a set of <<key, value>> pairs.
NoProps == {}
PageProps == {<<"page", "/home">>}
ExperimentProps(variant) == {<<"experiment_id", "exp_1">>, <<"variant", variant>>}
\* The assignment of a second experiment that has a control variant only.
OtherExperimentProps == {<<"experiment_id", "exp_2">>, <<"variant", "control">>}

\* The properties dicts of the model, each with its JSON text.
JsonTable ==
    {<<NoProps, "{}">>,
     <<PageProps, "{\"page\": \"/home\"}">>,
     <<ExperimentProps("control"),
       "{\"experiment_id\": \"exp_1\", \"variant\": \"control\"}">>,
     <<ExperimentProps("treatment"),
       "{\"experiment_id\": \"exp_1\", \"variant\": \"treatment\"}">>,
     <<OtherExperimentProps,
       "{\"experiment_id\": \"exp_2\", \"variant\": \"control\"}">>}

\* json.dumps of a properties dict.
json_dumps(properties) == (CHOOSE p \in JsonTable : p[1] = properties)[2]

\* DuckDB's json_extract_string(text, '$.key'): the value under the key, NULL
\* when the object has no such key.
json_extract_string(text, key) ==
    LET object == (CHOOSE p \in JsonTable : p[2] = text)[1]
    IN  IF \E kv \in object : kv[1] = key
        THEN (CHOOSE kv \in object : kv[1] = key)[2]
        ELSE NULL

\* dict.get(key, default)
DictGet(d, key, default) == IF key \in DOMAIN d THEN d[key] ELSE default

\* Event dicts a caller of insert_events passes: well-formed ones, ones
\* without the optional properties key, and ones with None in a NOT NULL column.
DictEvents ==
    {[event_id |-> "e1", user_id |-> "u1", event_type |-> "page_view",
      timestamp |-> 1, properties |-> PageProps],
     [event_id |-> "e1", user_id |-> "u2", event_type |-> "purchase",
      timestamp |-> 2, properties |-> NoProps],
     [event_id |-> "e2", user_id |-> "u1", event_type |-> "page_view",
      timestamp |-> 1],
     [event_id |-> "e2", user_id |-> NULL, event_type |-> "page_view",
      timestamp |-> 1, properties |-> PageProps],
     [event_id |-> "e1", user_id |-> "u1", event_type |-> NULL,
      timestamp |-> 1, properties |-> PageProps]}

\* All sequences over S of length 0..n.
SeqsUpTo(S, n) == UNION {[1..k -> S] : k \in 0..n}

DictBatches == SeqsUpTo(DictEvents, MaxBatch)

VARIABLES
    raw_events,  \* the rows of the table raw_events, in insertion order
    last,        \* the last call or request: its input, the table before it, its outcome
    requests     \* the requests a running collector has received, in order of arrival

storeVars == <<raw_events, last, requests>>

NoOperation == [op |-> "none"]

\* The parameter list of the INSERT statement: one value per column.
RowOf(event) ==
    [event_id |-> event.event_id,
     user_id |-> event.user_id,
     event_type |-> event.event_type,
     timestamp |-> event.timestamp,
     properties |-> json_dumps(DictGet(event, "properties", NoProps))]

\* event_id VARCHAR PRIMARY KEY: the key is already in the table.
ViolatesPrimaryKey(table, row) ==
    \E k \in 1..Len(table) : table[k].event_id = row.event_id

\* PRIMARY KEY and NOT NULL columns: the row has a NULL in one of them.
ViolatesNotNull(row) ==
    \/ row.event_id = NULL
    \/ row.user_id = NULL
    \/ row.event_type = NULL
    \/ row.timestamp = NullTimestamp

\* Mutant: the table has no primary key, only the NOT NULL checks.
ConstraintException_no_key(table, row) == ViolatesNotNull(row)

\* The INSERT raises duckdb.ConstraintException.
ConstraintException(table, row) ==
    ViolatesNotNull(row) \/ ViolatesPrimaryKey(table, row)

\* Mutant: an event whose key is stored deletes the stored row and is
\* inserted in its place at the end of the table (last write wins).
RECURSIVE insert_loop_upsert(_, _, _, _)
insert_loop_upsert(table, events, inserted, duplicates) ==
    IF events = <<>>
    THEN [table |-> table, inserted |-> inserted, duplicates |-> duplicates]
    ELSE LET row == RowOf(Head(events))
             others == SelectSeq(table, LAMBDA r : r.event_id # row.event_id)
         IN  IF ViolatesNotNull(row)
             THEN insert_loop_upsert(table, Tail(events), inserted, duplicates + 1)
             ELSE insert_loop_upsert(Append(others, row), Tail(events),
                                     inserted + 1, duplicates)

\* Mutant: an event whose key is stored overwrites the stored row (INSERT OR
\* REPLACE) and is counted as a duplicate.
RECURSIVE insert_loop_replace(_, _, _, _)
insert_loop_replace(table, events, inserted, duplicates) ==
    IF events = <<>>
    THEN [table |-> table, inserted |-> inserted, duplicates |-> duplicates]
    ELSE LET row == RowOf(Head(events))
             replaced == [k \in 1..Len(table) |->
                             IF table[k].event_id = row.event_id
                             THEN row ELSE table[k]]
         IN  IF ViolatesNotNull(row)
             THEN insert_loop_replace(table, Tail(events), inserted, duplicates + 1)
             ELSE IF ViolatesPrimaryKey(table, row)
             THEN insert_loop_replace(replaced, Tail(events), inserted,
                                      duplicates + 1)
             ELSE insert_loop_replace(Append(table, row), Tail(events),
                                      inserted + 1, duplicates)

\* The for loop of insert_events over the rest of the batch.
RECURSIVE insert_loop(_, _, _, _)
insert_loop(table, events, inserted, duplicates) ==
    IF events = <<>>
    THEN [table |-> table, inserted |-> inserted, duplicates |-> duplicates]
    ELSE LET row == RowOf(Head(events))
         IN  IF ConstraintException(table, row)
             THEN insert_loop(table, Tail(events), inserted, duplicates + 1)
             ELSE insert_loop(Append(table, row), Tail(events),
                              inserted + 1, duplicates)

\* insert_events(conn, events): the table afterwards and the returned pair.
insert_events(table, events) ==
    IF events = <<>>
    THEN [table |-> table, inserted |-> 0, duplicates |-> 0]
    ELSE insert_loop(table, events, 0, 0)

\* count_events(conn): SELECT COUNT(*) FROM raw_events
count_events(table) == Len(table)

(***************************************************************************)
(* The collector of src/src/collector: schemas.py and app.py               *)
(*                                                                         *)
(* A request body is a sequence of JSON objects, each a record whose       *)
(* DOMAIN is the keys the client sent.  Instants are integers; the         *)
(* validation time now is an input of the request.  A timestamp is sent as *)
(* a wall-clock reading (key timestamp) with or without a UTC offset (key  *)
(* tz): without one the parsed datetime is naive.                          *)
(***************************************************************************)
\* EventBatch.events: Field(..., min_length=1, max_length=1000)
min_length == 1
max_length == 1000

\* class EventType(str, Enum)
EventType ==
    {"page_view", "click", "signup", "purchase", "experiment_assignment", "custom"}

\* The validation times of the model's requests and the timestamps sent.
Clock == {2}

\* str.strip() on the user_id strings of the model's requests.
Strip(v) ==
    IF v = " u1 " THEN "u1" ELSE IF v = "  " THEN "" ELSE v

\* JSON events that pass validation: plain and padded user_id, with and
\* without the optional timestamp.
ValidJsonEvents ==
    {[event_id |-> "e1", user_id |-> "u1", event_type |-> "page_view",
      timestamp |-> 1],
     [event_id |-> "e2", user_id |-> " u1 ", event_type |-> "purchase"]}

\* JSON events with one defect each: blank user_id, no user_id, unknown
\* event_type, timestamp later than now.
InvalidJsonEvents ==
    {[event_id |-> "e2", user_id |-> "  ", event_type |-> "page_view",
      timestamp |-> 1],
     [event_id |-> "e2", event_type |-> "page_view", timestamp |-> 1],
     [event_id |-> "e1", user_id |-> "u1", event_type |-> "refund",
      timestamp |-> 1],
     [event_id |-> "e1", user_id |-> "u1", event_type |-> "page_view",
      timestamp |-> 3]}

JsonEvents == ValidJsonEvents \cup InvalidJsonEvents

\* Request bodies: every batch of up to MaxBatch events, and batches of
\* max_length + 1 copies of one valid event.
JsonBodies ==
    SeqsUpTo(JsonEvents, MaxBatch)
    \cup {[k \in 1..(max_length + 1) |-> e] : e \in ValidJsonEvents}

\* Event.user_id_not_empty returns v.strip(); "" stands for the ValueError
\* it raises when nothing is left.
user_id_not_empty(v) == Strip(v)

\* The tzinfo of a naive datetime.
NoTzinfo == "None"

\* tzinfo.utcoffset() in hours, for the offsets the model's clients send.
utcoffset(tzinfo) == IF tzinfo = "+01:00" THEN 1 ELSE 0

\* The datetime pydantic parses from the timestamp of a JSON object.
datetime_of(json) ==
    [wall |-> json.timestamp, tzinfo |-> DictGet(json, "tz", NoTzinfo)]

\* The instant of an aware datetime.
instant_of(v) == v.wall - utcoffset(v.tzinfo)

\* Mutant: a naive datetime is read in the local zone of a server that runs
\* one hour ahead of UTC.
timestamp_not_future_local(v, now) ==
    LET aware == IF v.tzinfo = NoTzinfo THEN [v EXCEPT !.tzinfo = "+01:00"] ELSE v
    IN  IF instant_of(aware) > now
        THEN [raised |-> TRUE, value |-> aware]
        ELSE [raised |-> FALSE, value |-> aware]

\* Event.timestamp_not_future: a naive v gets tzinfo UTC; the validator
\* raises ValueError when v is later than now and returns v otherwise.
timestamp_not_future(v, now) ==
    LET aware == IF v.tzinfo = NoTzinfo THEN [v EXCEPT !.tzinfo = "UTC"] ELSE v
    IN  IF instant_of(aware) > now
        THEN [raised |-> TRUE, value |-> aware]
        ELSE [raised |-> FALSE, value |-> aware]

\* Pydantic accepts the JSON object as an Event.
EventAccepted(json, now) ==
    /\ "user_id" \in DOMAIN json
    /\ user_id_not_empty(json.user_id) # ""
    /\ "event_type" \in DOMAIN json
    /\ json.event_type \in EventType
    /\ "timestamp" \in DOMAIN json =>
           ~timestamp_not_future(datetime_of(json), now).raised

\* The validated Event: user_id stripped, timestamp as the validator
\* returned it (its instant is what the TIMESTAMP WITH TIME ZONE column
\* keeps) or defaulting to now, properties defaulting to the empty dict.
Event(json, now) ==
    [event_id |-> json.event_id,
     user_id |-> user_id_not_empty(json.user_id),
     event_type |-> json.event_type,
     timestamp |->
         IF "timestamp" \in DOMAIN json
         THEN instant_of(timestamp_not_future(datetime_of(json), now).value)
         ELSE now,
     properties |-> DictGet(json, "properties", NoProps)]

\* Pydantic accepts the request body as an EventBatch.
EventBatchAccepted(body, now) ==
    /\ Len(body) >= min_length
    /\ Len(body) <= max_length
    /\ \A k \in 1..Len(body) : EventAccepted(body[k], now)

\* _events_to_dicts: e.model_dump(mode="json") of each validated event.
events_to_dicts(body, now) == [k \in 1..Len(body) |-> Event(body[k], now)]

(***************************************************************************)
(* The dashboard export of src/src/analysis/export.py                      *)
(*                                                                         *)
(* Percentages are integers counting hundredths of a percent (100.0 is     *)
(* 10000), the two decimals round(x, 2) keeps.  NULL in a numeric column   *)
(* of a query result is NullCount.                                         *)
(***************************************************************************)
\* Largest number of rows of a table the export is run on.
MaxRows == 3

NullCount == 0 - 1

\* round(users * 100.0 / total, 2), half to even.
Percent(users, total) ==
    LET n == users * 10000
        q == n \div total
        r == n % total
    IN  IF 2 * r > total \/ (2 * r = total /\ q % 2 = 1) THEN q + 1 ELSE q

\* The user_ids of the table: GROUP BY user_id.
UserIds(table) == {table[k].user_id : k \in 1..Len(table)}

\* MAX(CASE WHEN event_type = step THEN 1 ELSE 0 END) of one user.
reached(table, user_id, step) ==
    IF \E k \in 1..Len(table) :
           table[k].user_id = user_id /\ table[k].event_type = step
    THEN 1 ELSE 0

\* SUM(reached_<step>) FROM user_journey: NULL when user_journey is empty.
sum_reached(table, step) ==
    IF UserIds(table) = {} THEN NullCount
    ELSE Cardinality({u \in UserIds(table) : reached(table, u, step) = 1})

\* _FUNNEL_QUERY: three rows (step, step_order, users) ordered by step_order.
funnel_query(table) ==
    << <<"page_view", 1, sum_reached(table, "page_view")>>,
       <<"signup", 2, sum_reached(table, "signup")>>,
       <<"purchase", 3, sum_reached(table, "purchase")>> >>

\* int(users or 0)
int_or_zero(users) == IF users = NullCount THEN 0 ELSE users

\* The entry _export_funnel builds for the k-th row.
funnel_entry(rows, k, total) ==
    LET users == int_or_zero(rows[k][3])
        prev_users == IF k = 1 THEN NullCount ELSE int_or_zero(rows[k - 1][3])
    IN  [step |-> rows[k][1],
         step_order |-> rows[k][2],
         users |-> users,
         conversion_rate_pct |->
             IF total # 0 THEN Percent(users, total) ELSE 0,
         step_conversion_rate_pct |->
             IF prev_users = NullCount THEN 10000
             ELSE IF prev_users # 0 THEN Percent(users, prev_users) ELSE 0]

\* Mutant: no early return when nobody reached the first step; the entries
\* are built with total = 0.
export_funnel_no_early_return(table) ==
    LET rows == funnel_query(table)
    IN  [k \in 1..Len(rows) |-> funnel_entry(rows, k, int_or_zero(rows[1][3]))]

\* _export_funnel(conn)
export_funnel(table) ==
    LET rows == funnel_query(table)
        first_users == rows[1][3]
    IN  IF rows = <<>> THEN <<>>
        ELSE IF first_users = NullCount \/ first_users = 0 THEN <<>>
        ELSE [k \in 1..Len(rows) |-> funnel_entry(rows, k, first_users)]

\* The rows of the CTE assignments, by their position in the table.
assignments(table) ==
    {k \in 1..Len(table) : table[k].event_type = "experiment_assignment"}

\* (experiment_id, variant) of an assignment row.
assignment_key(row) ==
    <<json_extract_string(row.properties, "experiment_id"),
      json_extract_string(row.properties, "variant")>>

\* The CTE purchases: SELECT DISTINCT user_id ... WHERE event_type = 'purchase'.
purchases(table) ==
    {table[k].user_id : k \in {j \in 1..Len(table) : table[j].event_type = "purchase"}}

\* Mutant: users is COUNT(DISTINCT a.user_id) of the group.
group_users_distinct(table, key) ==
    Cardinality({table[k].user_id :
                    k \in {j \in assignments(table) : assignment_key(table[j]) = key}})

\* COUNT(*) of a group of the LEFT JOIN: one joined row per assignment row.
group_users(table, key) ==
    Cardinality({k \in assignments(table) : assignment_key(table[k]) = key})

\* SUM(CASE WHEN p.user_id IS NOT NULL THEN 1 ELSE 0 END) of a group.
group_conversions(table, key) ==
    Cardinality({k \in assignments(table) :
                    /\ assignment_key(table[k]) = key
                    /\ table[k].user_id \in purchases(table)})

\* The (experiment_id, variant) keys of the model's tables in the order of
\* ORDER BY a.experiment_id, a.variant (DuckDB sorts NULL last).
OrderedKeys ==
    << <<"exp_1", "control">>, <<"exp_1", "treatment">>,
       <<"exp_2", "control">>, <<NULL, NULL>> >>

\* _EXPERIMENT_QUERY: rows (experiment_id, variant, users, conversions).
experiment_query(table) ==
    LET present == {assignment_key(table[k]) : k \in assignments(table)}
        keys == SelectSeq(OrderedKeys, LAMBDA key : key \in present)
    IN  [k \in 1..Len(keys) |->
            <<keys[k][1], keys[k][2], group_users(table, keys[k]),
              group_conversions(table, keys[k])>>]

\* The experiment ids of the query rows in order of first appearance (the
\* insertion order of the dict experiments).
RECURSIVE experiment_ids(_)
experiment_ids(rows) ==
    IF rows = <<>> THEN <<>>
    ELSE LET rest == experiment_ids(SubSeq(rows, 1, Len(rows) - 1))
             exp_id == rows[Len(rows)][1]
         IN  IF \E k \in 1..Len(rest) : rest[k] = exp_id
             THEN rest ELSE Append(rest, exp_id)

\* The value stored under experiments[exp_id]["variants"][variant].
variant_entry(row) ==
    [name |-> row[2],
     users |-> row[3],
     conversions |-> row[4],
     conversion_rate |->
         IF row[3] # 0 THEN RoundTo(FDiv(row[4], row[3]), 6) ELSE 0]

\* analyze_experiment's defaults: confidence_level=0.95, min_sample_size=100.
default_confidence_level == 95 * (Scale \div 100)
default_min_sample_size == 100

\* entry["analysis"]: the fields copied from the ExperimentResult; a call
\* that raised is kept as it is (the exception leaves the export).
analysis_of(r) ==
    IF r.status = "raised" THEN r
    ELSE [status |-> "returned",
          absolute_uplift |-> r.absolute_uplift,
          relative_uplift |-> r.relative_uplift,
          p_value |-> r.p_value,
          ci_lower |-> r.ci_lower,
          ci_upper |-> r.ci_upper,
          is_significant |-> r.is_significant,
          decision |-> r.decision,
          reason |-> r.reason]

\* Mutant: the test before the analysis looks at the truth value of the
\* conversion counts, so a variant without conversions counts as missing.
experiment_entry_truthy_counts(rows, exp_id) ==
    LET own == SelectSeq(rows, LAMBDA row : row[1] = exp_id)
        variants == [k \in 1..Len(own) |-> variant_entry(own[k])]
        has(name) == \E k \in 1..Len(variants) : variants[k].name = name
        data(name) == variants[CHOOSE k \in 1..Len(variants) : variants[k].name = name]
    IN  IF /\ has("control") /\ has("treatment")
           /\ data("control").conversions # 0 /\ data("treatment").conversions # 0
        THEN LET control_data == data("control")
                 treatment_data == data("treatment")
                 analysed ==
                     analyze_experiment(
                         VariantStats("control", control_data.users,
                                      control_data.conversions),
                         VariantStats("treatment", treatment_data.users,
                                      treatment_data.conversions),
                         default_confidence_level,
                         default_min_sample_size).result
             IN  [experiment_id |-> exp_id, variants |-> variants,
                  analysis |-> analysis_of(analysed)]
        ELSE [experiment_id |-> exp_id, variants |-> variants]

\* The entry _export_experiments builds for one experiment; analysis is
\* attached when the experiment has a control and a treatment variant.
experiment_entry(rows, exp_id) ==
    LET own == SelectSeq(rows, LAMBDA row : row[1] = exp_id)
        variants == [k \in 1..Len(own) |-> variant_entry(own[k])]
        has(name) == \E k \in 1..Len(variants) : variants[k].name = name
        data(name) == variants[CHOOSE k \in 1..Len(variants) : variants[k].name = name]
    IN  IF has("control") /\ has("treatment")
        THEN LET control_data == data("control")
                 treatment_data == data("treatment")
                 analysed ==
                     analyze_experiment(
                         VariantStats("control", control_data.users,
                                      control_data.conversions),
                         VariantStats("treatment", treatment_data.users,
                                      treatment_data.conversions),
                         default_confidence_level,
                         default_min_sample_size).result
             IN  [experiment_id |-> exp_id, variants |-> variants,
                  analysis |-> analysis_of(analysed)]
        ELSE [experiment_id |-> exp_id, variants |-> variants]

\* _export_experiments(conn)
export_experiments(table) ==
    LET rows == experiment_query(table)
        ids == experiment_ids(rows)
    IN  IF rows = <<>> THEN <<>>
        ELSE [k \in 1..Len(ids) |-> experiment_entry(rows, ids[k])]

\* The groups of _EVENT_SUMMARY_QUERY: one entry per event_type.
summary_entries(table) ==
    {[event_type |-> t,
      count |-> Cardinality({k \in 1..Len(table) : table[k].event_type = t}),
      unique_users |->
          Cardinality({table[k].user_id :
                          k \in {j \in 1..Len(table) : table[j].event_type = t}})] :
        t \in {table[k].event_type : k \in 1..Len(table)}}

\* _export_event_summary(conn): the entries ORDER BY count DESC; entries of
\* equal count come in any order.
event_summaries(table) ==
    LET entries == summary_entries(table)
        n == Cardinality(entries)
    IN  {s \in [1..n -> entries] :
            /\ \A i, j \in 1..n : s[i] = s[j] => i = j
            /\ \A i, j \in 1..n : i < j => s[i].count >= s[j].count}

\* export_dashboard_data: the dict it returns (and writes as JSON), or the
\* exception of an analyze_experiment call.
export_dashboard_data(table, event_summary) ==
    LET funnel == export_funnel(table)
        experiments == export_experiments(table)
        raising == {k \in 1..Len(experiments) :
                       /\ "analysis" \in DOMAIN experiments[k]
                       /\ experiments[k].analysis.status = "raised"}
    IN  IF raising # {}
        THEN experiments[CHOOSE k \in raising : \A j \in raising : k <= j].analysis
        ELSE [status |-> "returned",
              funnel |-> funnel,
              experiments |-> experiments,
              event_summary |-> event_summary]

(***************************************************************************)
(* The report of src/src/analysis/run.py                                   *)
(*                                                                         *)
(* run.py has its own copy of the experiment query, written with a third  *)
(* common table expression; it is modelled from its own text.              *)
(***************************************************************************)
\* The right side of a LEFT JOIN row that found no match.
NoMatch == [user_id |-> NULL]

\* run.py's CTE assignments: one row per experiment_assignment event.
run_assignments(table) ==
    {[row |-> k,
      user_id |-> table[k].user_id,
      experiment_id |-> json_extract_string(table[k].properties, "experiment_id"),
      variant |-> json_extract_string(table[k].properties, "variant")] :
        k \in {j \in 1..Len(table) : table[j].event_type = "experiment_assignment"}}

\* run.py's CTE purchases: SELECT DISTINCT user_id, one row per purchaser.
run_purchases(table) ==
    {[user_id |-> table[k].user_id] :
        k \in {j \in 1..Len(table) : table[j].event_type = "purchase"}}

\* Mutant: every joined row counts as converted.
converted_always(p) == 1

\* CASE WHEN p.user_id IS NOT NULL THEN 1 ELSE 0 END AS converted
converted(p) == IF p.user_id # NULL THEN 1 ELSE 0

\* The CTE experiment_users: assignments a LEFT JOIN purchases p ON
\* a.user_id = p.user_id, one row per matching pair and one row with a NULL
\* right side for an assignment without a match.
experiment_users(table) ==
    LET matches(a) == {p \in run_purchases(table) : p.user_id = a.user_id}
        pairs == {ap \in run_assignments(table) \X (run_purchases(table) \cup {NoMatch}) :
                     \/ ap[2] \in matches(ap[1])
                     \/ (ap[2] = NoMatch /\ matches(ap[1]) = {})}
    IN  {[a |-> ap[1], p |-> ap[2], converted |-> converted(ap[2])] : ap \in pairs}

\* run.py's _EXPERIMENT_QUERY: COUNT(*) and SUM(converted) of experiment_users
\* GROUP BY experiment_id, variant ORDER BY experiment_id, variant.
run_experiment_query(table) ==
    LET joined == experiment_users(table)
        group(key) == {x \in joined : <<x.a.experiment_id, x.a.variant>> = key}
        keys == SelectSeq(OrderedKeys, LAMBDA key : group(key) # {})
    IN  [k \in 1..Len(keys) |->
            <<keys[k][1], keys[k][2], Cardinality(group(keys[k])),
              Cardinality({x \in group(keys[k]) : x.converted = 1})>>]

\* variants.get(name) of run_analysis: the VariantStats built from the row of
\* the experiment with that variant, None when there is no such row.
variants_get(rows, exp_id, name) ==
    LET own == SelectSeq(rows, LAMBDA row : row[1] = exp_id /\ row[2] = name)
    IN  IF own = <<>> THEN NoVariant
        ELSE VariantStats(own[1][2], own[1][3], own[1][4])

\* run_analysis(db_path): the list of ExperimentResults it returns, one per
\* experiment that has a control and a treatment row, in the order of the
\* dict experiments; an exception of analyze_experiment leaves the function.
run_analysis(table) ==
    LET rows == run_experiment_query(table)
        ids == experiment_ids(rows)
        kept == SelectSeq(ids, LAMBDA exp_id :
                    /\ variants_get(rows, exp_id, "control") # NoVariant
                    /\ variants_get(rows, exp_id, "treatment") # NoVariant)
        results == [k \in 1..Len(kept) |->
                       [experiment_id |-> kept[k]] @@
                       analyze_experiment(
                           variants_get(rows, kept[k], "control"),
                           variants_get(rows, kept[k], "treatment"),
                           default_confidence_level,
                           default_min_sample_size).result]
        raising == {k \in 1..Len(results) : results[k].status = "raised"}
    IN  IF rows = <<>> THEN [status |-> "returned", results |-> <<>>]
        ELSE IF raising # {}
        THEN results[CHOOSE k \in raising : \A j \in raising : k <= j]
        ELSE [status |-> "returned", results |-> results]

\* Event dicts the tables of the export are built from: funnel events of two
\* users, assignments of both users to both variants, an assignment to a
\* second experiment and an assignment whose properties name no experiment.
ExportPayloads ==
    {[user_id |-> u, event_type |-> t, properties |-> NoProps] :
        u \in {"u1", "u2"}, t \in {"page_view", "signup", "purchase"}}
    \cup {[user_id |-> u, event_type |-> "experiment_assignment",
           properties |-> ExperimentProps(v)] :
             u \in {"u1", "u2"}, v \in {"control", "treatment"}}
    \cup {[user_id |-> "u1", event_type |-> "experiment_assignment",
           properties |-> p] : p \in {OtherExperimentProps, NoProps}}

\* A batch of events with distinct event_ids carrying the given payloads.
RowIds == <<"r1", "r2", "r3", "r4", "r5", "r6">>

ExportBatch(payloads) ==
    [k \in 1..Len(payloads) |->
        [event_id |-> RowIds[k],
         user_id |-> payloads[k].user_id,
         event_type |-> payloads[k].event_type,
         timestamp |-> 1,
         properties |-> payloads[k].properties]]

\* The tables the export runs on: what insert_events stores from such a batch.
ExportTables ==
    {insert_events(<<>>, ExportBatch(payloads)).table :
        payloads \in SeqsUpTo(ExportPayloads, MaxRows)}

(***************************************************************************)
(* Actions                                                                 *)
(***************************************************************************)
vars == <<control, treatment, call, locals, result, raw_events, last, requests>>

\* Nothing constructed, no call made, an empty table (init_db on a new database).
Init ==
    /\ control = NoVariant
    /\ treatment = NoVariant
    /\ call = NoCall
    /\ locals = NoLocals
    /\ result = NoResult
    /\ raw_events = <<>>
    /\ last = NoOperation
    /\ requests = <<>>

\* A caller builds the control VariantStats from a pair of counts.
ConstructControl(users, conversions) ==
    /\ control = NoVariant
    /\ control' = VariantStats("control", users, conversions)
    /\ UNCHANGED <<treatment, call, locals, result>>
    /\ UNCHANGED storeVars

\* A caller builds the treatment VariantStats from a pair of counts.
ConstructTreatment(users, conversions) ==
    /\ treatment = NoVariant
    /\ treatment' = VariantStats("treatment", users, conversions)
    /\ UNCHANGED <<control, call, locals, result>>
    /\ UNCHANGED storeVars

\* analyze_experiment(experiment_id, control, treatment, confidence_level,
\* min_sample_size) runs from entry to return or raise.
AnalyzeExperiment(confidence_level, min_sample_size) ==
    /\ control # NoVariant
    /\ treatment # NoVariant
    /\ ~call.made
    /\ LET out == analyze_experiment(control, treatment, confidence_level,
                                     min_sample_size)
       IN  /\ result' = out.result
           /\ locals' = out.locals
    /\ call' = [made |-> TRUE,
                confidence_level |-> confidence_level,
                min_sample_size |-> min_sample_size]
    /\ UNCHANGED <<control, treatment>>
    /\ UNCHANGED storeVars

Next ==
    \/ \E uc \in Counts : ConstructControl(uc[1], uc[2])
    \/ \E uc \in Counts : ConstructTreatment(uc[1], uc[2])
    \/ \E cl \in ConfidenceLevels, m \in MinSampleSizes : AnalyzeExperiment(cl, m)

Spec == Init /\ [][Next]_vars

(***************************************************************************)
(* Actions of the warehouse and the collector                              *)
(***************************************************************************)
\* Mutant: the events are validated one by one inside the handler; the valid
\* events of a batch of admissible length are inserted before the invalid
\* ones make the request fail.
ingest_events_partial(table, body, now) ==
    IF Len(body) < min_length \/ Len(body) > max_length
    THEN [table |-> table, insert_events_called |-> FALSE,
          response |-> [status |-> 422]]
    ELSE LET valid == SelectSeq(body, LAMBDA e : EventAccepted(e, now))
             out == insert_events(table, events_to_dicts(valid, now))
         IN  IF Len(valid) < Len(body)
             THEN [table |-> out.table, insert_events_called |-> TRUE,
                   response |-> [status |-> 422]]
             ELSE [table |-> out.table, insert_events_called |-> TRUE,
                   response |-> [status |-> 200, accepted |-> out.inserted,
                                 duplicate_count |-> out.duplicates]]

\* POST /ingest: FastAPI validates the body as an EventBatch and answers 422
\* without entering the handler, or the handler runs insert_events and
\* answers 200 with the returned pair.  The result is the table afterwards,
\* whether insert_events was called, and the response.
ingest_events(table, body, now) ==
    IF ~EventBatchAccepted(body, now)
    THEN [table |-> table, insert_events_called |-> FALSE,
          response |-> [status |-> 422]]
    ELSE LET out == insert_events(table, events_to_dicts(body, now))
         IN  [table |-> out.table, insert_events_called |-> TRUE,
              response |-> [status |-> 200, accepted |-> out.inserted,
                            duplicate_count |-> out.duplicates]]

\* POST /ingest/single: the same for a body that is one Event.
ingest_single(table, json, now) ==
    IF ~EventAccepted(json, now)
    THEN [table |-> table, insert_events_called |-> FALSE,
          response |-> [status |-> 422]]
    ELSE LET out == insert_events(table, events_to_dicts(<<json>>, now))
         IN  [table |-> out.table, insert_events_called |-> TRUE,
              response |-> [status |-> 200, accepted |-> out.inserted,
                            duplicate_count |-> out.duplicates]]

\* A caller (simulator, test) calls insert_events(conn, events).
InsertEvents(events) ==
    /\ LET out == insert_events(raw_events, events)
       IN  /\ raw_events' = out.table
           /\ last' = [op |-> "insert_events", events |-> events,
                       before |-> raw_events,
                       inserted |-> out.inserted, duplicates |-> out.duplicates]
    /\ UNCHANGED requests
    /\ UNCHANGED statsVars

\* A client posts a body to /ingest at time now.
Ingest(body, now) ==
    /\ LET out == ingest_events(raw_events, body, now)
       IN  /\ raw_events' = out.table
           /\ last' = [op |-> "ingest", body |-> body, now |-> now,
                       before |-> raw_events,
                       insert_events_called |-> out.insert_events_called,
                       response |-> out.response]
    /\ UNCHANGED requests
    /\ UNCHANGED statsVars

\* A client posts one event to /ingest/single at time now.
IngestSingle(json, now) ==
    /\ LET out == ingest_single(raw_events, json, now)
       IN  /\ raw_events' = out.table
           /\ last' = [op |-> "ingest_single", body |-> <<json>>, now |-> now,
                       before |-> raw_events,
                       insert_events_called |-> out.insert_events_called,
                       response |-> out.response]
    /\ UNCHANGED requests
    /\ UNCHANGED statsVars

NextStore ==
    \/ \E events \in DictBatches : InsertEvents(events)
    \/ \E body \in JsonBodies, now \in Clock : Ingest(body, now)
    \/ \E json \in JsonEvents, now \in Clock : IngestSingle(json, now)

SpecStore == Init /\ [][NextStore]_vars

(***************************************************************************)
(* Validation of single events                                             *)
(*                                                                         *)
(* POST /ingest/single with every combination of user_id, event_type and   *)
(* timestamp a client may send under one event_id.                         *)
(***************************************************************************)
\* The user_id part of a JSON event: absent, blank, padded, plain.
UserIdInputs ==
    {[event_id |-> "e1"]}
    \cup {[event_id |-> "e1", user_id |-> u] : u \in {"  ", " u1 ", "u1"}}

\* The event_type part: the six values of EventType and one other string.
EventTypeInputs == {[event_type |-> t] : t \in EventType \cup {"refund"}}

\* The timestamp part: absent, naive, UTC, one hour ahead of UTC; at and
\* after the validation time.
TimestampInputs ==
    {[properties |-> NoProps]}
    \cup {[properties |-> NoProps, timestamp |-> w] : w \in {2, 3}}
    \cup {[properties |-> NoProps, timestamp |-> 3, tz |-> "UTC"]}
    \cup {[properties |-> NoProps, timestamp |-> w, tz |-> "+01:00"] : w \in {3, 4}}

EventInputs ==
    {u @@ t @@ ts : u \in UserIdInputs, t \in EventTypeInputs, ts \in TimestampInputs}

NextValidate ==
    \E json \in EventInputs, now \in Clock : IngestSingle(json, now)

SpecValidate == Init /\ [][NextValidate]_vars

(***************************************************************************)
(* The collector serving requests concurrently                             *)
(*                                                                         *)
(* The endpoints are plain def functions, which FastAPI runs in a thread   *)
(* pool, and every request uses the one connection lifespan stored in      *)
(* app.state.db.  A request is validated on arrival; the handler then runs *)
(* the for loop of insert_events, one INSERT statement at a time.  The     *)
(* statements of different requests interleave in any order; one statement *)
(* runs alone (the connection executes one statement at a time, each in    *)
(* its own transaction).                                                   *)
(***************************************************************************)
\* Largest number of requests the collector receives.
MaxRequests == 2

NoResponse == [status |-> 0]

\* The events the concurrent requests carry: two valid ones and one with an
\* unknown event_type.
FirstEvent == [event_id |-> "e1", user_id |-> "u1", event_type |-> "page_view",
               timestamp |-> 1]
SecondEvent == [event_id |-> "e2", user_id |-> " u1 ", event_type |-> "purchase"]
RejectedEvent == [event_id |-> "e1", user_id |-> "u1", event_type |-> "refund",
                  timestamp |-> 1]

\* Bodies posted to /ingest while other requests are in flight.
ConcurrentBodies ==
    {<<FirstEvent>>, <<FirstEvent, SecondEvent>>, <<SecondEvent, FirstEvent>>,
     <<FirstEvent, FirstEvent>>, <<FirstEvent, RejectedEvent>>}

\* Bodies posted to /ingest/single.
ConcurrentEvents == {FirstEvent, SecondEvent}

\* A request whose body was rejected: answered 422, the handler never runs.
RejectedRequest(endpoint) ==
    [endpoint |-> endpoint, rows |-> <<>>, next |-> 1, inserted |-> 0,
     duplicates |-> 0, outcomes |-> <<>>, response |-> [status |-> 422]]

\* A request whose handler has been entered: rows is what _events_to_dicts
\* returned, next the position of the for loop of insert_events, outcomes the
\* branch each finished iteration took.
RunningRequest(endpoint, rows) ==
    [endpoint |-> endpoint, rows |-> rows, next |-> 1, inserted |-> 0,
     duplicates |-> 0, outcomes |-> <<>>, response |-> NoResponse]

\* The collector starts on a database that is new or holds the first event.
InitConcurrent ==
    /\ control = NoVariant
    /\ treatment = NoVariant
    /\ call = NoCall
    /\ locals = NoLocals
    /\ result = NoResult
    /\ raw_events \in
           {<<>>, insert_events(<<>>, events_to_dicts(<<FirstEvent>>, 1)).table}
    /\ last = [op |-> "lifespan", before |-> raw_events]
    /\ requests = <<>>

\* POST /ingest arrives at time now and is validated.
ReceiveIngest(body, now) ==
    /\ Len(requests) < MaxRequests
    /\ requests' =
           Append(requests,
                  IF EventBatchAccepted(body, now)
                  THEN RunningRequest("/ingest", events_to_dicts(body, now))
                  ELSE RejectedRequest("/ingest"))
    /\ UNCHANGED <<raw_events, last>>
    /\ UNCHANGED statsVars

\* POST /ingest/single arrives at time now and is validated.
ReceiveIngestSingle(json, now) ==
    /\ Len(requests) < MaxRequests
    /\ requests' =
           Append(requests,
                  IF EventAccepted(json, now)
                  THEN RunningRequest("/ingest/single", events_to_dicts(<<json>>, now))
                  ELSE RejectedRequest("/ingest/single"))
    /\ UNCHANGED <<raw_events, last>>
    /\ UNCHANGED statsVars

\* The thread of request r runs one iteration of the for loop of
\* insert_events: the INSERT of rows[next] and the counter it updates.
InsertStatement(r) ==
    /\ requests[r].response = NoResponse
    /\ requests[r].next <= Len(requests[r].rows)
    /\ LET req == requests[r]
           out == insert_loop(raw_events, <<req.rows[req.next]>>,
                              req.inserted, req.duplicates)
       IN  /\ raw_events' = out.table
           /\ requests' =
                  [requests EXCEPT
                      ![r] = [req EXCEPT
                                 !.next = req.next + 1,
                                 !.inserted = out.inserted,
                                 !.duplicates = out.duplicates,
                                 !.outcomes =
                                     Append(req.outcomes,
                                            IF out.inserted > req.inserted
                                            THEN "inserted" ELSE "duplicate")]]
    /\ UNCHANGED last
    /\ UNCHANGED statsVars

\* insert_events of request r returns and the handler answers with the pair.
Respond(r) ==
    /\ requests[r].response = NoResponse
    /\ requests[r].next > Len(requests[r].rows)
    /\ requests' =
           [requests EXCEPT
               ![r].response = [status |-> 200,
                                accepted |-> requests[r].inserted,
                                duplicate_count |-> requests[r].duplicates]]
    /\ UNCHANGED <<raw_events, last>>
    /\ UNCHANGED statsVars

NextConcurrent ==
    \/ \E body \in ConcurrentBodies, now \in Clock : ReceiveIngest(body, now)
    \/ \E json \in ConcurrentEvents, now \in Clock : ReceiveIngestSingle(json, now)
    \/ \E r \in 1..Len(requests) : InsertStatement(r)
    \/ \E r \in 1..Len(requests) : Respond(r)

SpecConcurrent == InitConcurrent /\ [][NextConcurrent]_vars

(***************************************************************************)
(* Actions of the export                                                   *)
(***************************************************************************)
\* A warehouse that earlier ingestion has filled (or left empty), no call made.
InitExport ==
    /\ control = NoVariant
    /\ treatment = NoVariant
    /\ call = NoCall
    /\ locals = NoLocals
    /\ result = NoResult
    /\ raw_events \in ExportTables
    /\ last = NoOperation
    /\ requests = <<>>

\* export_dashboard_data runs on the table; the order of event_summary is
\* the one the database returned.
ExportDashboardData(event_summary) ==
    /\ last' = [op |-> "export",
                data |-> export_dashboard_data(raw_events, event_summary)]
    /\ UNCHANGED raw_events
    /\ UNCHANGED requests
    /\ UNCHANGED statsVars

\* run_analysis runs on the table; rows is what its query returned.
RunAnalysis ==
    /\ last' = [op |-> "run_analysis",
                rows |-> run_experiment_query(raw_events),
                report |-> run_analysis(raw_events)]
    /\ UNCHANGED raw_events
    /\ UNCHANGED requests
    /\ UNCHANGED statsVars

NextExport ==
    \/ \E event_summary \in event_summaries(raw_events) :
           ExportDashboardData(event_summary)
    \/ RunAnalysis

SpecExport == InitExport /\ [][NextExport]_vars

(***************************************************************************)
(* Predicates the properties share                                         *)
(***************************************************************************)
\* The counts the spec calls valid: 0 <= conversions <= users.
ValidStats(v) == v.users >= 0 /\ v.conversions >= 0 /\ v.conversions <= v.users

Called == call.made

Returned == result.status = "returned"

ValidInputs == ValidStats(control) /\ ValidStats(treatment)

\* Both variants have at least min_sample_size users.
AtOrAboveThreshold ==
    /\ control.users >= call.min_sample_size
    /\ treatment.users >= call.min_sample_size

\* The p-value the call computed, before rounding: 1.0 under the guard.
ComputedPValue == IF locals.reached = "test" THEN locals.p_value ELSE Scale

(***************************************************************************)
(* Properties                                                              *)
(***************************************************************************)
\* C1: when either variant has fewer users than min_sample_size, the call
\* returns INCONCLUSIVE with p_value = 1.0, ci_lower = ci_upper = 0.0 and
\* is_significant = False, whatever the conversion counts are.
C1_SampleSizeGate ==
    (Called /\ ~AtOrAboveThreshold) =>
        /\ Returned
        /\ result.decision = "INCONCLUSIVE"
        /\ result.p_value = Scale
        /\ result.ci_lower = 0
        /\ result.ci_upper = 0
        /\ result.is_significant = FALSE

\* C1 witness: only the control is below the minimum, the rates differ, and
\* the guard has answered.
C1_Witness ==
    /\ Called
    /\ control.users < call.min_sample_size
    /\ treatment.users >= call.min_sample_size
    /\ Returned
    /\ result.decision = "INCONCLUSIVE"
    /\ result.absolute_uplift > 0

\* C2 (as claimed): with valid counts, any confidence_level in (0, 1) and any
\* min_sample_size >= 0, the call returns a result and never raises.
C2_NeverRaises == (Called /\ ValidInputs) => Returned

\* C3: at or above the threshold, the decision is SHIP exactly when the
\* unrounded statistics are significant with absolute_uplift > 0 and
\* ci_lower > 0, and DO NOT SHIP in every other case; a result that is not
\* significant is never SHIP.
C3_DecisionTable ==
    (Called /\ AtOrAboveThreshold /\ Returned) =>
        /\ result.decision \in {"SHIP", "DO NOT SHIP"}
        /\ result.decision = "SHIP" <=>
               (locals.is_significant /\ locals.absolute_uplift > 0
                    /\ locals.ci_lower > 0)

\* C3 witness: uplift and lower bound are positive, the test is not
\* significant, and the first row of the table has answered DO NOT SHIP.
C3_Witness ==
    /\ Called /\ AtOrAboveThreshold /\ Returned
    /\ ~locals.is_significant
    /\ locals.absolute_uplift > 0
    /\ locals.ci_lower > 0
    /\ result.decision = "DO NOT SHIP"

\* C4 (as claimed): every returned result, the guard's included, has
\* ci_lower <= absolute_uplift <= ci_upper.
C4_IntervalAlwaysContainsEstimate ==
    (Called /\ ValidInputs /\ Returned) =>
        /\ result.ci_lower <= result.absolute_uplift
        /\ result.absolute_uplift <= result.ci_upper

\* C5: at or above the threshold, the rounded fields of a returned result
\* satisfy ci_lower <= absolute_uplift <= ci_upper.
C5_RoundedIntervalContainsEstimate ==
    (Called /\ ValidInputs /\ AtOrAboveThreshold /\ Returned) =>
        /\ result.ci_lower <= result.absolute_uplift
        /\ result.absolute_uplift <= result.ci_upper

\* C5 witness: the interval is narrower than a rounding step, so that the
\* lower bound and the estimate, different before rounding, are reported equal.
C5_Witness ==
    /\ Called /\ ValidInputs /\ AtOrAboveThreshold /\ Returned
    /\ locals.ci_lower < locals.absolute_uplift
    /\ locals.absolute_uplift # result.absolute_uplift
    /\ result.ci_lower = result.absolute_uplift

\* C6 (as claimed): a VariantStats with conversions > users or a negative
\* count is never constructed, so analyze_experiment is never entered with
\* one and no exception comes from inside the engine because of one.
C6_InvalidRejectedAtConstruction ==
    /\ control # NoVariant => ValidStats(control)
    /\ treatment # NoVariant => ValidStats(treatment)
    /\ Called => ValidInputs

\* C7 (as claimed): is_significant is true exactly when the reported p_value
\* field is below 1 - confidence_level.
C7_SignificantFromReportedPValue ==
    Returned =>
        (result.is_significant <=> result.p_value < Scale - result.confidence_level)

\* C7 (amended): is_significant is true exactly when the p-value the call
\* computed, before rounding it to six decimals for the report, is below
\* 1 - confidence_level; the reported p_value is that value rounded.
C7_SignificantFromComputedPValue ==
    Returned =>
        /\ result.is_significant <=> ComputedPValue < Scale - result.confidence_level
        /\ result.p_value = RoundTo(ComputedPValue, 6)

\* C7 witness: a significant result whose reported p_value is not below
\* 1 - confidence_level.
C7_Witness ==
    /\ Returned
    /\ locals.reached = "test"
    /\ result.is_significant
    /\ result.p_value >= Scale - result.confidence_level

\* C8 (as claimed): a SHIP result reports is_significant = True and
\* absolute_uplift, relative_uplift and ci_lower all > 0.
C8_ShipFieldsPositive ==
    (Returned /\ result.decision = "SHIP") =>
        /\ result.is_significant
        /\ result.absolute_uplift > 0
        /\ result.relative_uplift > 0
        /\ result.ci_lower > 0

\* C8 (amended): a SHIP result has is_significant = True and unrounded
\* absolute_uplift > 0 and ci_lower > 0; its reported absolute_uplift,
\* relative_uplift and ci_lower are >= 0, and relative_uplift is 0.0 when the
\* control rate is not positive and positive before rounding otherwise.
C8_ShipSigns ==
    (Returned /\ result.decision = "SHIP") =>
        /\ result.is_significant
        /\ locals.absolute_uplift > 0
        /\ locals.ci_lower > 0
        /\ result.absolute_uplift >= 0
        /\ result.relative_uplift >= 0
        /\ result.ci_lower >= 0
        /\ conversion_rate(control) > 0 => locals.relative_uplift > 0
        /\ conversion_rate(control) <= 0 => result.relative_uplift = 0

\* C8 witness: SHIP with a control that never converted, hence a reported
\* relative_uplift of 0.0.
C8_Witness ==
    /\ Returned /\ ValidInputs
    /\ result.decision = "SHIP"
    /\ control.conversions = 0
    /\ result.relative_uplift = 0

\* A SHIP result whose positive lower bound is reported as 0.0.
ShipWithLowerBoundRoundedToZero ==
    /\ Returned /\ ValidInputs
    /\ result.decision = "SHIP"
    /\ locals.ci_lower > 0
    /\ result.ci_lower = 0

\* C9: a significant result with absolute_uplift < 0 and ci_upper < 0, read
\* from the reported fields or from the unrounded statistics, is DO NOT SHIP
\* with the NEGATIVE effect reason.
C9_NegativeEffect ==
    (/\ Returned
     /\ result.is_significant
     /\ \/ result.absolute_uplift < 0 /\ result.ci_upper < 0
        \/ locals.absolute_uplift < 0 /\ locals.ci_upper < 0) =>
        /\ result.decision = "DO NOT SHIP"
        /\ result.reason = "Statistically significant NEGATIVE effect"

\* C9 witness: a significant result with negative uplift and upper bound.
C9_Witness ==
    /\ Returned /\ ValidInputs
    /\ result.is_significant
    /\ result.absolute_uplift < 0
    /\ result.ci_upper < 0
    /\ result.reason = "Statistically significant NEGATIVE effect"

\* C10 (as claimed): two variants with equal conversion rates and both at or
\* above min_sample_size give a returned result with absolute_uplift = 0.0,
\* is_significant = False and DO NOT SHIP; and no result with
\* absolute_uplift <= 0 is SHIP.
C10_ZeroEffect ==
    /\ (/\ Called /\ ValidInputs /\ AtOrAboveThreshold
        /\ conversion_rate(control) = conversion_rate(treatment)) =>
           /\ Returned
           /\ result.absolute_uplift = 0
           /\ result.is_significant = FALSE
           /\ result.decision = "DO NOT SHIP"
    /\ (Returned /\ result.absolute_uplift <= 0) => result.decision # "SHIP"

\* The pooled proportion of the two variants is exactly 0 or exactly 1: no
\* user converted in either variant, or every user of both did.
DegeneratePool ==
    /\ control.users + treatment.users > 0
    /\ \/ control.conversions + treatment.conversions = 0
       \/ control.conversions + treatment.conversions =
              control.users + treatment.users

\* C11 (as claimed): with both variants at or above min_sample_size and a
\* pooled proportion of exactly 0 or 1, the call does not raise and returns
\* absolute_uplift = 0.0, p_value = 1.0, is_significant = False and
\* DO NOT SHIP.
C11_DegenerateStatistics ==
    (Called /\ ValidInputs /\ AtOrAboveThreshold /\ DegeneratePool) =>
        /\ Returned
        /\ result.absolute_uplift = 0
        /\ result.p_value = Scale
        /\ result.is_significant = FALSE
        /\ result.decision = "DO NOT SHIP"

\* The part of C11 that does hold: the same statement for variants that both
\* have at least one user.
DegenerateWithUsers ==
    (/\ Called /\ ValidInputs /\ AtOrAboveThreshold /\ DegeneratePool
     /\ control.users > 0 /\ treatment.users > 0) =>
        /\ Returned
        /\ result.absolute_uplift = 0
        /\ result.p_value = Scale
        /\ result.is_significant = FALSE
        /\ result.decision = "DO NOT SHIP"
        /\ locals.se_test = 0

\* ci_upper - ci_lower of a returned result, from its reported fields.
Width(r) == r.ci_upper - r.ci_lower

\* The result of the same call (same variants, same min_sample_size) made at
\* another confidence level.
ResultAt(confidence_level) ==
    analyze_experiment(control, treatment, confidence_level,
                       call.min_sample_size).result

Level95 == 95 * (Scale \div 100)

Level99 == 99 * (Scale \div 100)

\* C12 (as claimed): for any fixed pair of valid variant counts, the width
\* ci_upper - ci_lower returned at confidence_level 0.99 is strictly greater
\* than the width returned at 0.95 (read here on the pairs the test runs on,
\* both variants at or above min_sample_size).
C12_WidthStrictlyGreater ==
    (/\ Called /\ ValidInputs /\ Returned /\ AtOrAboveThreshold
     /\ call.confidence_level = Level99) =>
        Width(result) > Width(ResultAt(Level95))

\* C12 (amended): the width at 0.99 is never smaller than the width at 0.95;
\* both are 0 when a variant is below min_sample_size or when se_ci = 0 (both
\* conversion rates are 0 or 1), and the width at 0.99 is strictly greater
\* when both variants are at or above min_sample_size and se_ci >= 0.00001.
C12_WidthNeverSmaller ==
    (/\ Called /\ ValidInputs /\ Returned
     /\ call.confidence_level = Level99) =>
        LET other == ResultAt(Level95)
        IN  /\ other.status = "returned"
            /\ Width(result) >= Width(other)
            /\ ~AtOrAboveThreshold =>
                   Width(result) = 0 /\ Width(other) = 0
            /\ (AtOrAboveThreshold /\ locals.se_ci = 0) =>
                   Width(result) = 0 /\ Width(other) = 0
            /\ (AtOrAboveThreshold /\ locals.se_ci >= Scale \div 10^5) =>
                   Width(result) > Width(other)

\* A tested pair of variants whose interval is strictly wider at 0.99.
C12_Witness ==
    /\ Called /\ ValidInputs /\ Returned /\ AtOrAboveThreshold
    /\ call.confidence_level = Level99
    /\ locals.se_ci >= Scale \div 10^5
    /\ Width(result) > Width(ResultAt(Level95))
    /\ Width(ResultAt(Level95)) > 0

\* C18: the relative uplift a call computes equals absolute_uplift divided by
\* the control conversion rate when that rate is > 0 and is exactly 0.0 when
\* the control rate is 0, even if the treatment rate is positive; the
\* conversion rate of a variant with users = 0 is 0.0. The returned field is
\* that value (under the guard) or its rounding to 4 decimals (after the test).
C18_RelativeUpliftGuard ==
    Called =>
        LET p_c == conversion_rate(control)
            p_t == conversion_rate(treatment)
        IN  /\ control.users = 0 => p_c = 0
            /\ treatment.users = 0 => p_t = 0
            /\ locals.absolute_uplift = p_t - p_c
            /\ p_c > 0 =>
                   locals.relative_uplift = FDiv(locals.absolute_uplift, p_c)
            /\ p_c = 0 => locals.relative_uplift = 0
            /\ (Returned /\ locals.reached = "guard") =>
                   result.relative_uplift = locals.relative_uplift
            /\ (Returned /\ locals.reached = "test") =>
                   result.relative_uplift = RoundTo(locals.relative_uplift, 4)
            /\ (Returned /\ p_c = 0) => result.relative_uplift = 0

\* A control that never converted against a treatment that did: the returned
\* relative_uplift is 0.0 although absolute_uplift is positive; the control
\* has users, so the 0.0 comes from the guard on the rate.
C18_Witness ==
    /\ Called /\ ValidInputs /\ Returned
    /\ locals.reached = "test"
    /\ control.users > 0
    /\ conversion_rate(control) = 0
    /\ conversion_rate(treatment) > 0
    /\ result.absolute_uplift > 0
    /\ result.relative_uplift = 0

\* The pooled test is significant while the unpooled interval the call
\* computed contains zero.
SignificantButIntervalHasZero ==
    /\ Called /\ ValidInputs /\ AtOrAboveThreshold /\ Returned
    /\ locals.reached = "test"
    /\ locals.is_significant
    /\ locals.ci_lower <= 0
    /\ locals.ci_upper >= 0

\* C20: whenever both variants are at or above min_sample_size, the pooled
\* test is significant and the unpooled confidence interval contains zero,
\* the decision is DO NOT SHIP (direction uncertain), also when
\* absolute_uplift > 0.
C20_DirectionUncertain ==
    SignificantButIntervalHasZero =>
        /\ result.is_significant
        /\ result.decision = "DO NOT SHIP"
        /\ result.reason = "Effect direction uncertain"

\* The branch is reached by valid counts with a positive uplift.
C20_Witness ==
    /\ SignificantButIntervalHasZero
    /\ locals.absolute_uplift > 0
    /\ result.absolute_uplift > 0
    /\ result.decision = "DO NOT SHIP"
    /\ result.reason = "Effect direction uncertain"

\* C21: every returned result has a decision among SHIP, DO NOT SHIP and
\* INCONCLUSIVE and a non-empty reason; INCONCLUSIVE is the decision exactly
\* of the results the minimum-sample guard returned, so a result with both
\* variants at or above min_sample_size is SHIP or DO NOT SHIP.
C21_InconclusiveOnlyFromGate ==
    (Called /\ Returned) =>
        /\ result.decision \in {"SHIP", "DO NOT SHIP", "INCONCLUSIVE"}
        /\ result.reason # ""
        /\ (result.decision = "INCONCLUSIVE") <=> ~AtOrAboveThreshold
        /\ (result.decision = "INCONCLUSIVE") <=> (locals.reached = "guard")
        /\ (result.decision = "INCONCLUSIVE") =>
               result.reason = "Insufficient sample size"

\* C21 witness: a positive minimum is met by both variants, the test is not
\* significant, and the result is DO NOT SHIP rather than INCONCLUSIVE.
C21_Witness ==
    /\ Called /\ ValidInputs /\ Returned
    /\ call.min_sample_size > 0
    /\ AtOrAboveThreshold
    /\ ~result.is_significant
    /\ result.decision = "DO NOT SHIP"
    /\ result.reason = "Not statistically significant"

(***************************************************************************)
(* Predicates the warehouse and collector properties share                 *)
(***************************************************************************)
\* The last operation ran insert_events: a direct call, or a request that
\* passed validation.
RanInsert ==
    \/ last.op = "insert_events"
    \/ /\ last.op \in {"ingest", "ingest_single"}
       /\ last.insert_events_called

\* The list of event dicts that call of insert_events received.
Batch ==
    IF last.op = "insert_events" THEN last.events
    ELSE events_to_dicts(last.body, last.now)

\* The pair that call returned.
Inserted ==
    IF last.op = "insert_events" THEN last.inserted ELSE last.response.accepted

Duplicates ==
    IF last.op = "insert_events" THEN last.duplicates
    ELSE last.response.duplicate_count

\* The event_ids stored in a table.
StoredIds(table) == {table[k].event_id : k \in 1..Len(table)}

\* The rows the last operation appended, in order.
Appended == SubSeq(raw_events, Len(last.before) + 1, Len(raw_events))

\* The table holds the rows of `before`, then the rows of the events of
\* Batch whose index is in idx, in batch order.
AppendedExactly(idx) ==
    /\ Len(raw_events) = Len(last.before) + Cardinality(idx)
    /\ SubSeq(raw_events, 1, Len(last.before)) = last.before
    /\ \A k \in idx :
           Appended[Cardinality({j \in idx : j <= k})] = RowOf(Batch[k])

\* The event has a value in every NOT NULL column.
HasNoNull(event) ==
    /\ event.event_id # NULL
    /\ event.user_id # NULL
    /\ event.event_type # NULL
    /\ event.timestamp # NullTimestamp

\* Indices of the events whose event_id is neither stored before the call
\* nor carried by an earlier event of the batch.
NewIdIndices ==
    {k \in 1..Len(Batch) :
        /\ Batch[k].event_id \notin StoredIds(last.before)
        /\ \A j \in 1..(k - 1) : Batch[j].event_id # Batch[k].event_id}

\* Indices of the events without a NULL whose event_id is neither stored
\* before the call nor carried by an earlier event without a NULL.
StorableIndices ==
    {k \in 1..Len(Batch) :
        /\ HasNoNull(Batch[k])
        /\ Batch[k].event_id \notin StoredIds(last.before)
        /\ \A j \in 1..(k - 1) :
               HasNoNull(Batch[j]) => Batch[j].event_id # Batch[k].event_id}

\* No two rows of the table share an event_id.
UniqueEventIds ==
    \A j, k \in 1..Len(raw_events) :
        raw_events[j].event_id = raw_events[k].event_id => j = k

AllIdsStored ==
    \A k \in 1..Len(Batch) : Batch[k].event_id \in StoredIds(last.before)

\* The last operation was a request to /ingest or /ingest/single.
WasRequest == last.op \in {"ingest", "ingest_single"}

\* C14: a batch whose events are all already stored, handed to insert_events
\* or posted to /ingest or /ingest/single (where it passes validation as it
\* did the first time), gives inserted/accepted = 0 and duplicates =
\* len(batch), answers 200, and leaves the stored events unchanged.
C14_Idempotent ==
    (RanInsert /\ AllIdsStored) =>
        /\ Inserted = 0
        /\ Duplicates = Len(Batch)
        /\ raw_events = last.before
        /\ WasRequest => last.response.status = 200

\* A body of two events posted to /ingest when both rows are stored already.
C14_Witness ==
    /\ last.op = "ingest"
    /\ last.response.status = 200
    /\ Len(Batch) = 2
    /\ \A k \in 1..Len(Batch) :
           \E j \in 1..Len(last.before) : last.before[j] = RowOf(Batch[k])
    /\ last.response.accepted = 0
    /\ last.response.duplicate_count = 2
    /\ raw_events = last.before

\* The JSON event has one of the defects the claim lists: user_id missing or
\* blank, event_type unknown, timestamp later than the validation time.
Defective(json, now) ==
    \/ "user_id" \notin DOMAIN json
    \/ Strip(json.user_id) = ""
    \/ "event_type" \notin DOMAIN json
    \/ json.event_type \notin EventType
    \/ "timestamp" \in DOMAIN json /\ json.timestamp > now

\* C15: a POST /ingest whose batch is empty, has more than 1000 events or
\* contains at least one invalid event is answered 422 before insert_events
\* runs, and no event of the batch is persisted.
C15_AllOrNothing ==
    (/\ last.op = "ingest"
     /\ \/ Len(last.body) = 0
        \/ Len(last.body) > 1000
        \/ \E k \in 1..Len(last.body) : Defective(last.body[k], last.now)) =>
        /\ last.response.status = 422
        /\ ~last.insert_events_called
        /\ raw_events = last.before

\* A rejected body whose first event is valid and not stored yet, followed by
\* an invalid one: the valid event is not persisted either.
C15_Witness ==
    /\ last.op = "ingest"
    /\ Len(last.body) = 2
    /\ ~Defective(last.body[1], last.now)
    /\ last.body[1].event_id \notin StoredIds(last.before)
    /\ Defective(last.body[2], last.now)
    /\ last.response.status = 422
    /\ raw_events = last.before

\* A body of 1001 valid events is rejected as well.
OversizedRejected ==
    /\ last.op = "ingest"
    /\ Len(last.body) = max_length + 1
    /\ \A k \in 1..Len(last.body) : ~Defective(last.body[k], last.now)
    /\ last.response.status = 422

(***************************************************************************)
(* Properties of the export                                                *)
(***************************************************************************)
\* The last operation was an export that returned its dict.
Exported == last.op = "export" /\ last.data.status = "returned"

\* C16 (as claimed): for any contents of raw_events the exported funnel has
\* non-increasing user counts page_view >= signup >= purchase, and every
\* conversion_rate_pct lies in [0, 100].
C16_FunnelMonotone ==
    (Exported /\ last.data.funnel # <<>>) =>
        LET funnel == last.data.funnel
        IN  /\ funnel[1].users >= funnel[2].users
            /\ funnel[2].users >= funnel[3].users
            /\ \A k \in 1..Len(funnel) :
                   /\ funnel[k].conversion_rate_pct >= 0
                   /\ funnel[k].conversion_rate_pct <= 100 * 100

\* What the export does guarantee: each count is the number of users with an
\* event of that step, the first is positive, no percentage is negative.
FunnelCountsUsersPerStep ==
    (Exported /\ last.data.funnel # <<>>) =>
        LET funnel == last.data.funnel
        IN  /\ funnel[1].users > 0
            /\ \A k \in 1..Len(funnel) :
                   /\ funnel[k].users =
                        Cardinality({u \in UserIds(raw_events) :
                            \E j \in 1..Len(raw_events) :
                                /\ raw_events[j].user_id = u
                                /\ raw_events[j].event_type = funnel[k].step})
                   /\ funnel[k].conversion_rate_pct >= 0

\* A funnel whose purchase step is at 200 percent: one user viewed a page,
\* two other purchases came from users counted at no earlier step.
FunnelAboveHundredPercent ==
    /\ Exported
    /\ last.data.funnel # <<>>
    /\ last.data.funnel[3].conversion_rate_pct = 200 * 100

\* C19: an export over a table with no events returns funnel = [],
\* experiments = [] and event_summary = []; every export returns, and a
\* non-empty funnel has exactly the three entries page_view, signup, purchase
\* in that order.
C19_EmptyExport ==
    last.op = "export" =>
        /\ last.data.status = "returned"
        /\ raw_events = <<>> =>
               /\ last.data.funnel = <<>>
               /\ last.data.experiments = <<>>
               /\ last.data.event_summary = <<>>
        /\ last.data.funnel # <<>> =>
               /\ Len(last.data.funnel) = 3
               /\ last.data.funnel[1].step = "page_view"
               /\ last.data.funnel[2].step = "signup"
               /\ last.data.funnel[3].step = "purchase"

\* The export of an empty table.
C19_Witness ==
    /\ Exported
    /\ raw_events = <<>>
    /\ last.data.funnel = <<>>
    /\ last.data.experiments = <<>>
    /\ last.data.event_summary = <<>>

\* An export with a funnel, an analysed experiment and an event summary.
FullExportReached ==
    /\ Exported
    /\ Len(last.data.funnel) = 3
    /\ Len(last.data.experiments) = 1
    /\ "analysis" \in DOMAIN last.data.experiments[1]
    /\ Len(last.data.event_summary) = 2

(***************************************************************************)
(* Properties of the event store across calls                              *)
(***************************************************************************)
\* The first event of the batch with the given event_id that has a value in
\* every NOT NULL column: the one an INSERT can store.
FirstStorable(batch, event_id) ==
    batch[CHOOSE i \in 1..Len(batch) :
              /\ batch[i].event_id = event_id /\ HasNoNull(batch[i])
              /\ \A j \in 1..(i - 1) :
                     ~(batch[j].event_id = event_id /\ HasNoNull(batch[j]))]

\* C25: every step of the store keeps the rows it had, unchanged and in
\* place, and stores at most one row per event_id; a row it appends is the
\* row of the first storable event of the batch with that event_id, so a
\* later event with a stored event_id and other fields changes nothing.
C25_AppendOnlyFirstWriteWins ==
    [][/\ Len(raw_events') >= Len(raw_events)
       /\ SubSeq(raw_events', 1, Len(raw_events)) = raw_events
       /\ UniqueEventIds'
       /\ \A k \in (Len(raw_events) + 1)..Len(raw_events') :
              /\ RanInsert'
              /\ raw_events'[k] = RowOf(FirstStorable(Batch', raw_events'[k].event_id))
      ]_vars

\* C25 witness: insert_events received an event whose event_id was stored
\* with another user_id, event_type, timestamp and properties; the stored
\* row is the one of the first write.
C25_Witness ==
    /\ last.op = "insert_events"
    /\ last.before # <<>>
    /\ raw_events = last.before
    /\ \E i \in 1..Len(last.events) : \E k \in 1..Len(raw_events) :
           /\ HasNoNull(last.events[i])
           /\ raw_events[k].event_id = last.events[i].event_id
           /\ raw_events[k].user_id # last.events[i].user_id
           /\ raw_events[k].event_type # last.events[i].event_type
           /\ raw_events[k].timestamp # last.events[i].timestamp
           /\ raw_events[k].properties # RowOf(last.events[i]).properties

\* Indices of the events of the batch whose event_id was stored when their
\* INSERT ran: before the call, or by an earlier event of the batch.
CollisionIndices ==
    {k \in 1..Len(Batch) :
        \/ Batch[k].event_id \in StoredIds(last.before)
        \/ \E j \in 1..(k - 1) :
               HasNoNull(Batch[j]) /\ Batch[j].event_id = Batch[k].event_id}

\* C26 (as claimed): the duplicate count of insert_events is the number of
\* events whose event_id was already stored; an event rejected for a NULL
\* in a NOT NULL column is not counted.
C26_DuplicatesAreIdCollisions ==
    RanInsert => Duplicates = Cardinality(CollisionIndices)

\* An event with user_id None and a new event_id was counted as a duplicate.
NullCountedAsDuplicate ==
    /\ last.op = "insert_events"
    /\ \E k \in 1..Len(last.events) :
           /\ last.events[k].user_id = NULL
           /\ k \notin CollisionIndices
    /\ CollisionIndices = {}
    /\ last.duplicates >= 1

(***************************************************************************)
(* Properties of the experiment queries and of the two analysis paths      *)
(***************************************************************************)
\* The last operation was a run_analysis that returned its list.
Reported == last.op = "run_analysis" /\ last.report.status = "returned"

\* A row (experiment_id, variant, users, conversions) with valid counts.
ValidRow(row) == row[3] >= 1 /\ row[4] >= 0 /\ row[4] <= row[3]

\* C22: whatever the table holds, every row of the experiment query of
\* export.py and of run.py has users >= 1 and 0 <= conversions <= users, and
\* so has every variant an export lists and every VariantStats a report
\* passed to analyze_experiment.
C22_AggregationValid ==
    /\ \A k \in 1..Len(experiment_query(raw_events)) :
           ValidRow(experiment_query(raw_events)[k])
    /\ \A k \in 1..Len(run_experiment_query(raw_events)) :
           ValidRow(run_experiment_query(raw_events)[k])
    /\ Exported =>
           \A e \in 1..Len(last.data.experiments) :
               \A k \in 1..Len(last.data.experiments[e].variants) :
                   LET v == last.data.experiments[e].variants[k]
                   IN  v.users >= 1 /\ ValidStats(v)
    /\ Reported =>
           \A k \in 1..Len(last.report.results) :
               /\ last.report.results[k].control.users >= 1
               /\ last.report.results[k].treatment.users >= 1
               /\ ValidStats(last.report.results[k].control)
               /\ ValidStats(last.report.results[k].treatment)

\* C22 witness: one user was assigned to the same variant twice and
\* purchased; the export lists the variant with 2 users and 2 conversions.
C22_Witness ==
    /\ Exported
    /\ Len(raw_events) = 3
    /\ \A k \in 1..3 : raw_events[k].user_id = "u1"
    /\ Len(last.data.experiments) = 1
    /\ Len(last.data.experiments[1].variants) = 1
    /\ last.data.experiments[1].variants[1].users = 2
    /\ last.data.experiments[1].variants[1].conversions = 2

\* The experiment ids the assignment events of the table carry (NULL for an
\* assignment without experiment_id).
AssignedExperiments ==
    {json_extract_string(raw_events[k].properties, "experiment_id") :
        k \in {j \in 1..Len(raw_events) :
                  raw_events[j].event_type = "experiment_assignment"}}

\* The variants the assignment events of an experiment carry.
AssignedVariants(exp_id) ==
    {json_extract_string(raw_events[k].properties, "variant") :
        k \in {j \in 1..Len(raw_events) :
                  /\ raw_events[j].event_type = "experiment_assignment"
                  /\ json_extract_string(raw_events[j].properties,
                                         "experiment_id") = exp_id}}

\* The experiments with a control and a treatment assignment.
WithBothVariants ==
    {exp_id \in AssignedExperiments :
        {"control", "treatment"} \subseteq AssignedVariants(exp_id)}

\* C23: run_analysis returns one result for each experiment that has a
\* control and a treatment row and none for any other experiment; the export
\* lists every experiment once with all of its variants and attaches
\* "analysis" to exactly the experiments with both rows.
C23_AnalysedIffBothVariants ==
    /\ Reported =>
           /\ {last.report.results[k].experiment_id :
                   k \in 1..Len(last.report.results)} = WithBothVariants
           /\ Len(last.report.results) = Cardinality(WithBothVariants)
    /\ Exported =>
           /\ {last.data.experiments[e].experiment_id :
                   e \in 1..Len(last.data.experiments)} = AssignedExperiments
           /\ Len(last.data.experiments) = Cardinality(AssignedExperiments)
           /\ \A e \in 1..Len(last.data.experiments) :
                  LET entry == last.data.experiments[e]
                  IN  /\ ("analysis" \in DOMAIN entry) <=>
                             (entry.experiment_id \in WithBothVariants)
                      /\ {entry.variants[k].name : k \in 1..Len(entry.variants)}
                             = AssignedVariants(entry.experiment_id)
                      /\ Len(entry.variants)
                             = Cardinality(AssignedVariants(entry.experiment_id))

\* C23 witness: exp_1 has both variants and exp_2 a control only; the export
\* analyses the first and lists the control of the second without analysis.
C23_Witness ==
    /\ Exported
    /\ Len(last.data.experiments) = 2
    /\ last.data.experiments[1].experiment_id = "exp_1"
    /\ "analysis" \in DOMAIN last.data.experiments[1]
    /\ last.data.experiments[2].experiment_id = "exp_2"
    /\ "analysis" \notin DOMAIN last.data.experiments[2]
    /\ Len(last.data.experiments[2].variants) = 1
    /\ last.data.experiments[2].variants[1].name = "control"

\* The report of the same kind of table: one result, for exp_1 only.
ReportSkipsOtherExperiment ==
    /\ Reported
    /\ AssignedExperiments = {"exp_1", "exp_2"}
    /\ Len(last.report.results) = 1
    /\ last.report.results[1].experiment_id = "exp_1"

\* The analysis the export attaches to an experiment of the table, NoResult
\* when the export attaches none.
ExportAnalysis(exp_id) ==
    LET experiments == export_experiments(raw_events)
        found == {e \in 1..Len(experiments) :
                     /\ experiments[e].experiment_id = exp_id
                     /\ "analysis" \in DOMAIN experiments[e]}
    IN  IF found = {} THEN NoResult
        ELSE experiments[CHOOSE e \in found : TRUE].analysis

\* C24: on every table the experiment query of run.py returns the rows of
\* the experiment query of export.py, in the same order; every result of a
\* report carries the statistics and the decision the export attaches to
\* the same experiment, and the export analyses no experiment the report
\* leaves out.
C24_ReportAgreesWithExport ==
    /\ run_experiment_query(raw_events) = experiment_query(raw_events)
    /\ Reported =>
           /\ last.rows = experiment_query(raw_events)
           /\ \A k \in 1..Len(last.report.results) :
                  LET r == last.report.results[k]
                      a == ExportAnalysis(r.experiment_id)
                  IN  /\ a # NoResult
                      /\ a.decision = r.decision
                      /\ a.reason = r.reason
                      /\ a.absolute_uplift = r.absolute_uplift
                      /\ a.relative_uplift = r.relative_uplift
                      /\ a.p_value = r.p_value
                      /\ a.is_significant = r.is_significant
           /\ \A exp_id \in AssignedExperiments :
                  ExportAnalysis(exp_id) # NoResult =>
                      \E k \in 1..Len(last.report.results) :
                          last.report.results[k].experiment_id = exp_id

\* C24 witness: a report on a table where the control user purchased and the
\* treatment user did not; its rows are those of the export's query and its
\* one result has the decision of the export.
C24_Witness ==
    /\ Reported
    /\ last.rows = << <<"exp_1", "control", 1, 1>>, <<"exp_1", "treatment", 1, 0>> >>
    /\ experiment_query(raw_events) = last.rows
    /\ Len(last.report.results) = 1
    /\ last.report.results[1].decision = ExportAnalysis("exp_1").decision
    /\ last.report.results[1].absolute_uplift < 0

(***************************************************************************)
(* Properties of concurrent ingestion                                      *)
(***************************************************************************)
\* Every request received has been answered.
AllAnswered ==
    /\ requests # <<>>
    /\ \A r \in 1..Len(requests) : requests[r].response # NoResponse

\* The requests that passed validation and carry the event_id.
Carriers(event_id) ==
    {r \in 1..Len(requests) :
        \E k \in 1..Len(requests[r].rows) : requests[r].rows[k].event_id = event_id}

\* The occurrences <<request, position>> of the event_id whose INSERT ran
\* with the given outcome.
Occurrences(event_id, outcome) ==
    {rk \in (1..Len(requests)) \X (1..MaxBatch) :
        /\ rk[2] <= Len(requests[rk[1]].outcomes)
        /\ requests[rk[1]].rows[rk[2]].event_id = event_id
        /\ requests[rk[1]].outcomes[rk[2]] = outcome}

\* The requests that report the event_id as accepted, as a duplicate.
AcceptedBy(event_id) == {rk[1] : rk \in Occurrences(event_id, "inserted")}

DuplicateFor(event_id) == {rk[1] : rk \in Occurrences(event_id, "duplicate")}

\* The rows of the table with the event_id.
RowsWith(event_id) ==
    {k \in 1..Len(raw_events) : raw_events[k].event_id = event_id}

\* accepted summed over the first n requests.
RECURSIVE SumAccepted(_)
SumAccepted(n) ==
    IF n = 0 THEN 0 ELSE SumAccepted(n - 1) + requests[n].inserted

\* The counters of every answer are the outcomes of the request's INSERTs.
AnswersCountOutcomes ==
    \A r \in 1..Len(requests) :
        requests[r].response.status = 200 =>
            /\ requests[r].response.accepted =
                   Cardinality({k \in 1..Len(requests[r].outcomes) :
                                   requests[r].outcomes[k] = "inserted"})
            /\ requests[r].response.duplicate_count =
                   Cardinality({k \in 1..Len(requests[r].outcomes) :
                                   requests[r].outcomes[k] = "duplicate"})
            /\ Len(requests[r].outcomes) = Len(requests[r].rows)

\* C27 (as claimed): when every request is answered, each event_id that two
\* or more requests carry is reported as accepted by exactly one of them and as a
\* duplicate by every other, the table holds exactly one row for it, and the
\* sum of accepted equals the number of rows added.
C27_ExactlyOneAccepts ==
    AllAnswered =>
        /\ \A event_id \in EventIds :
               Cardinality(Carriers(event_id)) >= 2 =>
                   /\ Cardinality(AcceptedBy(event_id)) = 1
                   /\ Carriers(event_id) \ AcceptedBy(event_id)
                          \subseteq DuplicateFor(event_id)
                   /\ Cardinality(RowsWith(event_id)) = 1
        /\ SumAccepted(Len(requests)) = Len(raw_events) - Len(last.before)

\* C27 (amended): under every interleaving of the INSERT statements of the
\* requests that passed validation, an event_id that was not stored when the
\* collector started is inserted by exactly one INSERT, so that once all
\* requests are answered exactly one of them reports it as accepted and
\* every other one as a duplicate; an event_id that was stored is reported as
\* a duplicate by every request; the table never holds two rows for an
\* event_id, and at every moment the sum of accepted equals the number of
\* rows added.
C27_AtMostOneAccepts ==
    /\ last.op = "lifespan" =>
           /\ SubSeq(raw_events, 1, Len(last.before)) = last.before
           /\ SumAccepted(Len(requests)) = Len(raw_events) - Len(last.before)
           /\ UniqueEventIds
           /\ AnswersCountOutcomes
           /\ \A event_id \in EventIds :
                  /\ Cardinality(Occurrences(event_id, "inserted")) <= 1
                  /\ event_id \in StoredIds(last.before) =>
                         Occurrences(event_id, "inserted") = {}
                  /\ Occurrences(event_id, "inserted") # {} =>
                         Cardinality(RowsWith(event_id)) = 1
    /\ (last.op = "lifespan" /\ AllAnswered) =>
           \A event_id \in EventIds :
               Carriers(event_id) # {} =>
                   /\ Cardinality(RowsWith(event_id)) = 1
                   /\ Carriers(event_id) \ AcceptedBy(event_id)
                          \subseteq DuplicateFor(event_id)
                   /\ IF event_id \in StoredIds(last.before)
                      THEN AcceptedBy(event_id) = {}
                      ELSE Cardinality(AcceptedBy(event_id)) = 1

\* C27 witness: two requests carried a new event_id, the INSERT of the one
\* that arrived second ran first, and both are answered: the second reports
\* the event as accepted, the first as a duplicate.
C27_Witness ==
    /\ last.op = "lifespan" /\ last.before = <<>>
    /\ AllAnswered
    /\ Len(requests) = 2
    /\ Carriers("e1") = {1, 2}
    /\ AcceptedBy("e1") = {2}
    /\ DuplicateFor("e1") = {1}
    /\ requests[1].response.duplicate_count >= 1
    /\ requests[2].response.accepted >= 1
    /\ Cardinality(RowsWith("e1")) = 1

(***************************************************************************)
(* Properties of event validation                                          *)
(***************************************************************************)
\* The instant a JSON timestamp names when a reading without offset is
\* taken as UTC.
InstantReadAsUTC(json) ==
    IF "tz" \in DOMAIN json /\ json.tz = "+01:00"
    THEN json.timestamp - 1 ELSE json.timestamp

\* The three conditions on an accepted event.
MeetsConditions(json, now) ==
    /\ "user_id" \in DOMAIN json
    /\ json.user_id # "  "
    /\ "event_type" \in DOMAIN json
    /\ json.event_type \in
           {"page_view", "click", "signup", "purchase", "experiment_assignment",
            "custom"}
    /\ "timestamp" \in DOMAIN json => InstantReadAsUTC(json) <= now

\* C28: a single event is accepted only if its user_id is not blank, its
\* event_type is one of the six values and its timestamp, a reading without
\* offset taken as UTC, is not later than the validation time; the row an
\* accepted event stores has the user_id without surrounding whitespace and
\* that instant; any other event is answered 422 and stores nothing.
C28_EventValidation ==
    last.op = "ingest_single" =>
        LET json == last.body[1]
        IN  /\ last.response.status = 200 => MeetsConditions(json, last.now)
            /\ ~MeetsConditions(json, last.now) =>
                   /\ last.response.status = 422
                   /\ ~last.insert_events_called
                   /\ raw_events = last.before
            /\ (last.response.status = 200 /\ last.response.accepted = 1) =>
                   LET row == raw_events[Len(raw_events)]
                   IN  /\ row.user_id = "u1"
                       /\ row.event_type = json.event_type
                       /\ row.timestamp <= last.now
                       /\ "timestamp" \in DOMAIN json =>
                              row.timestamp = InstantReadAsUTC(json)

\* C28 witness: an event with a padded user_id and a reading one hour ahead
\* of UTC that names the validation time itself was accepted and stored
\* with the stripped user_id and that instant.
C28_Witness ==
    /\ last.op = "ingest_single"
    /\ "user_id" \in DOMAIN last.body[1]
    /\ last.body[1].user_id = " u1 "
    /\ "tz" \in DOMAIN last.body[1]
    /\ last.body[1].tz = "+01:00"
    /\ last.body[1].timestamp = 3
    /\ last.now = 2
    /\ last.response.status = 200
    /\ last.response.accepted = 1
    /\ raw_events[1].user_id = "u1"
    /\ raw_events[1].timestamp = 2

\* A reading without offset later than the validation time was rejected.
NaiveFutureRejected ==
    /\ last.op = "ingest_single"
    /\ "timestamp" \in DOMAIN last.body[1]
    /\ "tz" \notin DOMAIN last.body[1]
    /\ last.body[1].timestamp = 3
    /\ "user_id" \in DOMAIN last.body[1]
    /\ last.body[1].user_id = "u1"
    /\ last.body[1].event_type = "click"
    /\ last.response.status = 422

====
